---------------------------- MODULE Spec2Model ----------------------------
(***************************************************************************)
(* Sitemap generation and change detection scripts of .github/scripts.     *)
(*                                                                         *)
(* Each script is a batch program; each gets its own specification over    *)
(* the shared variables (the variables of the other scripts stay idle):    *)
(*   SpecToday    update_sitemap_if_needed_today.py                        *)
(*   SpecGen      generate_sitemap.py                                      *)
(*   SpecClassify the classifiers of generate_sitemap.py,                  *)
(*                universal_sitemap_generator.py and generate_sitemaps.py  *)
(*   SpecUnified  unified_sitemap_updater.py                               *)
(*                                                                         *)
(* Strings are TLA+ strings; TLC evaluates Len, SubSeq and \o on them.     *)
(* Timestamps are epoch seconds; filesystem mtimes are kept in ticks of    *)
(* 1/TicksPerSec s so that int(os.path.getmtime(..)) truncates.            *)
(* Priorities are kept in hundredths (80 is 0.8).                          *)
(***************************************************************************)
EXTENDS Integers, Sequences, FiniteSets, TLC

\* ------------------------------------------------------------------ bounds
MaxSec == 1          \* timestamps range over 0..MaxSec seconds
TicksPerSec == 2     \* sub-second resolution of filesystem mtimes
MaxRules == 2        \* rules per rule table in the classifier's configs
MaxUrls == 2         \* <url> elements of an existing sitemap.xml
MaxEntries == 2      \* entries given to an emitter, spelled out

\* --------------------------------------------------------------- variables
VARIABLES
    \* generate_sitemap.py
    gPc,          \* position in main: "start", "scan", "write", "exit"
    gConfigFile,  \* the file at args.config: "ok", "missing", "malformed"
    gConfig,      \* the config it parses to
    gBaseUrl,     \* args.base_url
    gTree,        \* the files of the working directory (relative paths)
    gTodo,        \* the files os.walk has not yet reached
    gUrls,        \* self.urls
    gOutFile,     \* the file at args.output
    gExit,        \* exit code, Running before the exit
    \* update_sitemap_if_needed_today.py
    tPc,          \* "start", "check", "scan", "decided", "exit"
    tArgs,        \* [output, force]
    tConfigFile,  \* the file at args.config: "ok", "missing", "malformed"
    tConfig,      \* the config it parses to
    tGit,         \* whether the git executable can be run
    tTree,        \* the files of the working directory (relative paths)
    tFiles,       \* sitemap path -> the sitemap file there (NoSitemap if none)
    tSitemapRead, \* what git and the filesystem answered for sitemap.xml
    tSitemapMtime,\* sitemap_mtime
    tTodo,        \* content_files not yet compared
    tFileRead,    \* content file -> what git and the filesystem answered
    tNewer,       \* newer_files
    tRegen,       \* result of should_regenerate_sitemap: "unset", "yes", "no"
    tGenRuns,     \* how often the generator subprocess was started
    tExit,        \* exit code, Running before the exit
    \* classifiers
    cPc,          \* "ready", "done"
    cScript,      \* which script's classifier
    cConfig,      \* its config
    cRoot,        \* project_path (universal_sitemap_generator.py)
    cPath,        \* the file's path relative to the project
    cResult,      \* [priority, changefreq]
    \* unified_sitemap_updater.py
    uPc,          \* "start", "parse", "update", "save", "done"
    uGit,         \* [log, diff]: the answers of the two git queries
    uFile,        \* the file sitemap.xml
    uStructural,  \* structural_changes
    uTree,        \* the files of the working directory (relative paths)
    uRoot,        \* the parsed <url> elements
    uMode,        \* "none", "full", "timestamps"
    uExit,        \* exit code, Running before the exit
    \* the URL mappers
    mPc,          \* "ready", "mapped", "remapped"
    mScript,      \* which script's mapper
    mBaseUrl,     \* the base URL given to the script
    mPath,        \* the file's path relative to the project
    mUrl,         \* the URL of mPath
    mAgain,       \* the URL of the relative part of mUrl
    \* the emitters
    ePc,          \* "ready", "validate", "exit", "parsed"
    eScript,      \* which script's emitter
    eEntries,     \* the entries spelled out
    eMore,        \* the number of further entries, not spelled out
    eFile,        \* the file at the output path
    eWarnings,    \* the warnings printed
    eParsed,      \* the (url, priority, changefreq) triples read back
    eExit,        \* exit code, Running before the exit
    \* the scanners
    sPc,          \* "ready", "done"
    sScript,      \* which script's scanner
    sConfig,      \* the user's config
    sRoot,        \* the absolute path of the scanned directory
    sTree,        \* the files of the directory (relative paths)
    sYielded,     \* the files the scanner returns
    \* universal_sitemap_generator.py
    vPc,          \* position in main: "start", "scan", "write", "validate", "exit"
    vConfigFile,  \* the file at args.config: "none", "ok", "missing", "malformed"
    vUserConfig,  \* what the file parses to
    vConfig,      \* self.config
    vRoot,        \* self.project_path
    vTree,        \* the files of the project (relative paths)
    vScanned,     \* scan_files has run
    vFound,       \* found_files
    vOutFile,     \* the file at args.output
    vExit,        \* exit code, Running before the exit
    \* update_sitemap_if_needed.py
    kPc,          \* "start", "crawl", "report", "done"
    kLinks,       \* the site: for every page, the absolute URLs of its links
    kFails,       \* the URLs whose fetch raises
    kFile,        \* the file at SITEMAP_FILE
    kExisting,    \* existing_urls
    kNeeds,       \* sitemap_needs_update
    kVisited,     \* visited
    kToVisit,     \* urls_to_visit
    kFetches,     \* the number of requests.get calls per URL
    kWrites,      \* the number of times SITEMAP_FILE was opened for writing
    kChanged,     \* the printed changed= line, "" before it
    kExit,        \* exit code, Running before the exit
    \* one content file whose metadata is read
    xPc,          \* "ready", "done"
    xScript,      \* which script reads it
    xPath,        \* the content file
    xRead,        \* what git and the filesystem answer for it
    xSitemapMtime, \* sitemap_mtime of the staleness check
    xUrls,        \* self.urls of the generator
    xNewer,       \* newer_files of the staleness check
    \* sitemap_check_and_submit.py
    hPc,          \* position in main: "start", "list", "check", "submit", "done"
    hEnv,         \* the setup and what the three commands do
    hNeeds,       \* needs_submit
    hWarnings,    \* the ::warning:: lines printed
    hSubmits,     \* the number of times the submit command was run
    hExit,        \* exit code, Running before the exit
    \* enhanced_sitemap_monitor.py, monitor_sitemaps for one sitemap
    nPc,          \* "start", "validate", "status", "done"
    nEnv,         \* what authentication, validation and the API answer
    nEntry,       \* the entry appended to results['sitemaps']
    nSubmits,     \* the number of submit calls
    nIssues,      \* results['issues_found']
    \* generate_sitemaps.py
    wPc,          \* position in main: "run", "done"
    wDisk,        \* the sitemap files in the working directory
    wWritten,     \* the files written in this run, in order
    wExit,        \* exit code, Running before the exit
    \* submit_sitemap_bing.py: submit_urls_to_bing_batch
    bPc,          \* "loop", "done"
    bUrls,        \* the argument urls
    bI,           \* the loop variable i
    bRequests,    \* the requests posted so far: urlList and outcome
    bTotalSuccess,
    bFailedUrls,
    bResult       \* the returned pair, << >> before the return

gVars == <<gPc, gConfigFile, gConfig, gBaseUrl, gTree, gTodo, gUrls, gOutFile, gExit>>

tVars == <<tPc, tArgs, tConfigFile, tConfig, tGit, tTree, tFiles, tSitemapRead,
           tSitemapMtime, tTodo, tFileRead, tNewer, tRegen, tGenRuns, tExit>>

cVars == <<cPc, cScript, cConfig, cRoot, cPath, cResult>>

uVars == <<uPc, uGit, uFile, uStructural, uTree, uRoot, uMode, uExit>>

mVars == <<mPc, mScript, mBaseUrl, mPath, mUrl, mAgain>>

eVars == <<ePc, eScript, eEntries, eMore, eFile, eWarnings, eParsed, eExit>>

sVars == <<sPc, sScript, sConfig, sRoot, sTree, sYielded>>

vVars == <<vPc, vConfigFile, vUserConfig, vConfig, vRoot, vTree, vScanned, vFound, vOutFile,
          vExit>>

kVars == <<kPc, kLinks, kFails, kFile, kExisting, kNeeds, kVisited, kToVisit, kFetches, kWrites,
          kChanged, kExit>>

xVars == <<xPc, xScript, xPath, xRead, xSitemapMtime, xUrls, xNewer>>

hVars == <<hPc, hEnv, hNeeds, hWarnings, hSubmits, hExit>>

nVars == <<nPc, nEnv, nEntry, nSubmits, nIssues>>

wVars == <<wPc, wDisk, wWritten, wExit>>

bVars == <<bPc, bUrls, bI, bRequests, bTotalSuccess, bFailedUrls, bResult>>

vars == <<gVars, tVars, cVars, uVars, mVars, eVars, sVars, vVars, kVars, xVars, hVars, nVars, wVars, bVars>>

\* the variables of the scripts other than the one running
GenOthers == <<tVars, cVars, uVars, mVars, eVars, sVars, vVars, kVars, xVars, hVars, nVars, wVars, bVars>>

TodayOthers == <<gVars, cVars, uVars, mVars, eVars, sVars, vVars, kVars, xVars, hVars, nVars, wVars, bVars>>

ClassifyOthers == <<gVars, tVars, uVars, mVars, eVars, sVars, vVars, kVars, xVars, hVars, nVars, wVars, bVars>>

UnifiedOthers == <<gVars, tVars, cVars, mVars, eVars, sVars, vVars, kVars, xVars, hVars, nVars, wVars, bVars>>

UrlOthers == <<gVars, tVars, cVars, uVars, eVars, sVars, vVars, kVars, xVars, hVars, nVars, wVars, bVars>>

EmitOthers == <<gVars, tVars, cVars, uVars, mVars, sVars, vVars, kVars, xVars, hVars, nVars, wVars, bVars>>

ScanOthers == <<gVars, tVars, cVars, uVars, mVars, eVars, vVars, kVars, xVars, hVars, nVars, wVars, bVars>>

UniRunOthers == <<gVars, tVars, cVars, uVars, mVars, eVars, sVars, kVars, xVars, hVars, nVars, wVars, bVars>>

CrawlOthers == <<gVars, tVars, cVars, uVars, mVars, eVars, sVars, vVars, xVars, hVars, nVars, wVars, bVars>>

MetaOthers == <<gVars, tVars, cVars, uVars, mVars, eVars, sVars, vVars, kVars, hVars, nVars, wVars, bVars>>

SubmitOthers == <<gVars, tVars, cVars, uVars, mVars, eVars, sVars, vVars, kVars, xVars, nVars, wVars, bVars>>

MonitorOthers == <<gVars, tVars, cVars, uVars, mVars, eVars, sVars, vVars, kVars, xVars, hVars, wVars, bVars>>

MultiOthers == <<gVars, tVars, cVars, uVars, mVars, eVars, sVars, vVars, kVars, xVars, hVars, nVars, bVars>>

BingOthers == <<gVars, tVars, cVars, uVars, mVars, eVars, sVars, vVars, kVars, xVars, hVars, nVars, wVars>>

\* a script that is not the one running
GenIdle ==
    /\ gPc = "idle" /\ gConfigFile = "ok" /\ gConfig = << >> /\ gBaseUrl = ""
    /\ gTree = {} /\ gTodo = {} /\ gUrls = << >> /\ gOutFile = << >> /\ gExit = -1

TodayIdle ==
    /\ tPc = "idle" /\ tArgs = << >> /\ tConfigFile = "ok" /\ tConfig = << >>
    /\ tGit = TRUE /\ tTree = {} /\ tFiles = << >> /\ tSitemapRead = << >>
    /\ tSitemapMtime = -1 /\ tTodo = {} /\ tFileRead = << >> /\ tNewer = {}
    /\ tRegen = "unset" /\ tGenRuns = 0 /\ tExit = -1

ClassifyIdle ==
    /\ cPc = "idle" /\ cScript = "" /\ cConfig = << >> /\ cRoot = "" /\ cPath = ""
    /\ cResult = << >>

UnifiedIdle ==
    /\ uPc = "idle" /\ uGit = << >> /\ uFile = << >> /\ uStructural = FALSE
    /\ uTree = {} /\ uRoot = << >> /\ uMode = "none" /\ uExit = -1

UrlIdle ==
    /\ mPc = "idle" /\ mScript = "" /\ mBaseUrl = "" /\ mPath = "" /\ mUrl = ""
    /\ mAgain = ""

EmitIdle ==
    /\ ePc = "idle" /\ eScript = "" /\ eEntries = << >> /\ eMore = 0 /\ eFile = << >>
    /\ eWarnings = {} /\ eParsed = << >> /\ eExit = -1

ScanIdle ==
    /\ sPc = "idle" /\ sScript = "" /\ sConfig = << >> /\ sRoot = "" /\ sTree = {}
    /\ sYielded = {}

UniRunIdle ==
    /\ vPc = "idle" /\ vConfigFile = "" /\ vUserConfig = << >> /\ vConfig = << >>
    /\ vRoot = "" /\ vTree = {} /\ vScanned = FALSE /\ vFound = {} /\ vOutFile = << >>
    /\ vExit = -1

CrawlIdle ==
    /\ kPc = "idle" /\ kLinks = << >> /\ kFails = {} /\ kFile = << >> /\ kExisting = {}
    /\ kNeeds = FALSE /\ kVisited = {} /\ kToVisit = {} /\ kFetches = << >> /\ kWrites = 0
    /\ kChanged = "" /\ kExit = -1

MetaIdle ==
    /\ xPc = "idle" /\ xScript = "" /\ xPath = "" /\ xRead = << >> /\ xSitemapMtime = 0
    /\ xUrls = << >> /\ xNewer = {}

SubmitIdle ==
    /\ hPc = "idle" /\ hEnv = << >> /\ hNeeds = FALSE /\ hWarnings = << >> /\ hSubmits = 0
    /\ hExit = -1

MonitorIdle ==
    /\ nPc = "idle" /\ nEnv = << >> /\ nEntry = << >> /\ nSubmits = 0 /\ nIssues = << >>

MultiIdle ==
    /\ wPc = "idle" /\ wDisk = << >> /\ wWritten = << >> /\ wExit = -1

BingIdle ==
    /\ bPc = "idle" /\ bUrls = << >> /\ bI = 0 /\ bRequests = << >>
    /\ bTotalSuccess = 0 /\ bFailedUrls = << >> /\ bResult = << >>

\* only one script runs
GenAlone == TodayIdle /\ ClassifyIdle /\ UnifiedIdle /\ UrlIdle /\ EmitIdle /\ ScanIdle /\ UniRunIdle /\ CrawlIdle /\ MetaIdle /\ SubmitIdle /\ MonitorIdle /\ MultiIdle /\ BingIdle

TodayAlone == GenIdle /\ ClassifyIdle /\ UnifiedIdle /\ UrlIdle /\ EmitIdle /\ ScanIdle /\ UniRunIdle /\ CrawlIdle /\ MetaIdle /\ SubmitIdle /\ MonitorIdle /\ MultiIdle /\ BingIdle

ClassifyAlone == GenIdle /\ TodayIdle /\ UnifiedIdle /\ UrlIdle /\ EmitIdle /\ ScanIdle /\ UniRunIdle /\ CrawlIdle /\ MetaIdle /\ SubmitIdle /\ MonitorIdle /\ MultiIdle /\ BingIdle

UnifiedAlone == GenIdle /\ TodayIdle /\ ClassifyIdle /\ UrlIdle /\ EmitIdle /\ ScanIdle /\ UniRunIdle /\ CrawlIdle /\ MetaIdle /\ SubmitIdle /\ MonitorIdle /\ MultiIdle /\ BingIdle

UrlAlone == GenIdle /\ TodayIdle /\ ClassifyIdle /\ UnifiedIdle /\ EmitIdle /\ ScanIdle /\ UniRunIdle /\ CrawlIdle /\ MetaIdle /\ SubmitIdle /\ MonitorIdle /\ MultiIdle /\ BingIdle

EmitAlone == GenIdle /\ TodayIdle /\ ClassifyIdle /\ UnifiedIdle /\ UrlIdle /\ ScanIdle /\ UniRunIdle /\ CrawlIdle /\ MetaIdle /\ SubmitIdle /\ MonitorIdle /\ MultiIdle /\ BingIdle

ScanAlone == GenIdle /\ TodayIdle /\ ClassifyIdle /\ UnifiedIdle /\ UrlIdle /\ EmitIdle /\ UniRunIdle /\ CrawlIdle /\ MetaIdle /\ SubmitIdle /\ MonitorIdle /\ MultiIdle /\ BingIdle

UniRunAlone == GenIdle /\ TodayIdle /\ ClassifyIdle /\ UnifiedIdle /\ UrlIdle /\ EmitIdle /\ ScanIdle /\ CrawlIdle /\ MetaIdle /\ SubmitIdle /\ MonitorIdle /\ MultiIdle /\ BingIdle

CrawlAlone == GenIdle /\ TodayIdle /\ ClassifyIdle /\ UnifiedIdle /\ UrlIdle /\ EmitIdle /\ ScanIdle /\ UniRunIdle /\ MetaIdle /\ SubmitIdle /\ MonitorIdle /\ MultiIdle /\ BingIdle

MetaAlone == GenIdle /\ TodayIdle /\ ClassifyIdle /\ UnifiedIdle /\ UrlIdle /\ EmitIdle /\ ScanIdle /\ UniRunIdle /\ CrawlIdle /\ SubmitIdle /\ MonitorIdle /\ MultiIdle /\ BingIdle

SubmitAlone == GenIdle /\ TodayIdle /\ ClassifyIdle /\ UnifiedIdle /\ UrlIdle /\ EmitIdle /\ ScanIdle /\ UniRunIdle /\ CrawlIdle /\ MetaIdle /\ MonitorIdle /\ MultiIdle /\ BingIdle

MonitorAlone == GenIdle /\ TodayIdle /\ ClassifyIdle /\ UnifiedIdle /\ UrlIdle /\ EmitIdle /\ ScanIdle /\ UniRunIdle /\ CrawlIdle /\ MetaIdle /\ SubmitIdle /\ MultiIdle /\ BingIdle

MultiAlone == GenIdle /\ TodayIdle /\ ClassifyIdle /\ UnifiedIdle /\ UrlIdle /\ EmitIdle /\ ScanIdle /\ UniRunIdle /\ CrawlIdle /\ MetaIdle /\ SubmitIdle /\ MonitorIdle /\ BingIdle

BingAlone == GenIdle /\ TodayIdle /\ ClassifyIdle /\ UnifiedIdle /\ UrlIdle /\ EmitIdle /\ ScanIdle /\ UniRunIdle /\ CrawlIdle /\ MetaIdle /\ SubmitIdle /\ MonitorIdle /\ MultiIdle

\* ----------------------------------------------------------------- strings
StartsWith(s, p) == Len(p) <= Len(s) /\ SubSeq(s, 1, Len(p)) = p

EndsWith(s, p) == Len(p) <= Len(s) /\ SubSeq(s, Len(s) - Len(p) + 1, Len(s)) = p

\* Python's `k in s`
Contains(s, k) ==
    \E i \in 1..(Len(s) - Len(k) + 1) : SubSeq(s, i, i + Len(k) - 1) = k

CharAt(s, i) == SubSeq(s, i, i)

\* str.find(k) + 1: the index of the first occurrence of k in s, 0 if none
IndexOf(s, k) ==
    IF Contains(s, k)
    THEN CHOOSE i \in 1..(Len(s) - Len(k) + 1) :
            /\ SubSeq(s, i, i + Len(k) - 1) = k
            /\ \A j \in 1..(i - 1) : SubSeq(s, j, j + Len(k) - 1) # k
    ELSE 0

\* str.rfind(k) + 1
LastIndexOf(s, k) ==
    IF Contains(s, k)
    THEN CHOOSE i \in 1..(Len(s) - Len(k) + 1) :
            /\ SubSeq(s, i, i + Len(k) - 1) = k
            /\ \A j \in (i + 1)..(Len(s) - Len(k) + 1) : SubSeq(s, j, j + Len(k) - 1) # k
    ELSE 0

DropFirst(s, n) == SubSeq(s, n + 1, Len(s))

UpperChars == "ABCDEFGHIJKLMNOPQRSTUVWXYZ"

LowerChars == "abcdefghijklmnopqrstuvwxyz"

LowerChar(c) ==
    IF \E i \in 1..Len(UpperChars) : CharAt(UpperChars, i) = c
    THEN CharAt(LowerChars, CHOOSE i \in 1..Len(UpperChars) : CharAt(UpperChars, i) = c)
    ELSE c

RECURSIVE Lower(_)
Lower(s) == IF s = "" THEN "" ELSE LowerChar(CharAt(s, 1)) \o Lower(DropFirst(s, 1))

\* The characters of the model's strings in code point order (str comparison).
CodePoints == "#$*-./0123456789:?ABCDEFGHIJKLMNOPQRSTUVWXYZ[\\]^_abcdefghijklmnopqrstuvwxyz"

Ord(c) == CHOOSE i \in 1..Len(CodePoints) : CharAt(CodePoints, i) = c

RECURSIVE StrLess(_, _)
StrLess(a, b) ==
    IF b = "" THEN FALSE
    ELSE IF a = "" THEN TRUE
    ELSE IF CharAt(a, 1) = CharAt(b, 1) THEN StrLess(DropFirst(a, 1), DropFirst(b, 1))
    ELSE Ord(CharAt(a, 1)) < Ord(CharAt(b, 1))

\* str.replace(a, b), a non-empty
RECURSIVE ReplaceAll(_, _, _)
ReplaceAll(s, a, b) ==
    IF s = "" THEN ""
    ELSE IF StartsWith(s, a) THEN b \o ReplaceAll(DropFirst(s, Len(a)), a, b)
    ELSE CharAt(s, 1) \o ReplaceAll(DropFirst(s, 1), a, b)

\* str.lstrip(chars)
RECURSIVE LStrip(_, _)
LStrip(s, chars) ==
    IF s # "" /\ Contains(chars, CharAt(s, 1)) THEN LStrip(DropFirst(s, 1), chars) ELSE s

\* os.path.basename
Basename(path) == DropFirst(path, LastIndexOf(path, "/"))

\* os.path.dirname
Dirname(path) ==
    IF LastIndexOf(path, "/") = 0 THEN "" ELSE SubSeq(path, 1, LastIndexOf(path, "/") - 1)

\* os.path.splitext(name)[0] of a file name: the extension starts at the last
\* dot that is not among the name's leading dots
SplitExtRoot(name) ==
    LET d == LastIndexOf(name, ".")
    IN  IF d = 0 \/ \A j \in 1..d : CharAt(name, j) = "." THEN name
        ELSE SubSeq(name, 1, d - 1)

\* the directory names on the way to the file, outermost first
RECURSIVE DirComponents(_)
DirComponents(path) ==
    IF Contains(path, "/")
    THEN <<SubSeq(path, 1, IndexOf(path, "/") - 1)>> \o DirComponents(DropFirst(path, IndexOf(path, "/")))
    ELSE <<>>

SeqRange(q) == {q[i] : i \in 1..Len(q)}


\* ------------------------------------------------- regular expressions (re)
\* The patterns of the configs use literals, \x escapes, ".", ".*", "[^/]*"
\* and a final "$".
RECURSIVE ReTokens(_)
ReTokens(p) ==
    IF p = "" THEN <<>>
    ELSE IF StartsWith(p, "[^/]*") THEN <<[t |-> "noslash*", c |-> ""]>> \o ReTokens(DropFirst(p, 5))
    ELSE IF StartsWith(p, "\\") /\ Len(p) >= 2
         THEN <<[t |-> "lit", c |-> CharAt(p, 2)]>> \o ReTokens(DropFirst(p, 2))
    ELSE IF StartsWith(p, ".*") THEN <<[t |-> "any*", c |-> ""]>> \o ReTokens(DropFirst(p, 2))
    ELSE IF StartsWith(p, ".") THEN <<[t |-> "any", c |-> ""]>> \o ReTokens(DropFirst(p, 1))
    ELSE IF p = "$" THEN <<[t |-> "end", c |-> ""]>>
    ELSE <<[t |-> "lit", c |-> CharAt(p, 1)]>> \o ReTokens(DropFirst(p, 1))

\* the tokens match a prefix of s
RECURSIVE ReMatchTokens(_, _)
ReMatchTokens(toks, s) ==
    IF toks = <<>> THEN TRUE
    ELSE LET h == Head(toks)
             rest == Tail(toks)
         IN  CASE h.t = "lit" -> s # "" /\ CharAt(s, 1) = h.c /\ ReMatchTokens(rest, DropFirst(s, 1))
               [] h.t = "any" -> s # "" /\ ReMatchTokens(rest, DropFirst(s, 1))
               [] h.t = "end" -> s = "" /\ ReMatchTokens(rest, s)
               [] h.t = "any*" -> \E n \in 0..Len(s) : ReMatchTokens(rest, DropFirst(s, n))
               [] h.t = "noslash*" ->
                    \E n \in 0..Len(s) :
                        /\ \A j \in 1..n : CharAt(s, j) # "/"
                        /\ ReMatchTokens(rest, DropFirst(s, n))

\* re.match(pattern, s)
ReMatch(pattern, s) == ReMatchTokens(ReTokens(pattern), s)

\* re.search(pattern, s)
ReSearch(pattern, s) ==
    \E i \in 0..Len(s) : ReMatchTokens(ReTokens(pattern), DropFirst(s, i))

\* ------------------------------------------------------------ configuration
\* A JSON config is a function from the keys it holds; dict.get(key, default)
CfgGet(config, key, default) == IF key \in DOMAIN config THEN config[key] ELSE default

\* A rule table (a JSON object, in file order) is a sequence of [k, v] pairs
\* with distinct keys; rules.get(key, default)
RuleGet(rules, key, default) ==
    IF \E i \in 1..Len(rules) : rules[i].k = key
    THEN rules[CHOOSE i \in 1..Len(rules) : rules[i].k = key].v
    ELSE default

\* the index of the first rule, in order, that is not `default` and whose
\* index is in hits (the rules whose keyword occurs); 0 when there is none
FirstRule(rules, hits) ==
    IF \E i \in hits : rules[i].k # "default"
    THEN CHOOSE i \in hits :
            /\ rules[i].k # "default"
            /\ \A j \in hits : rules[j].k # "default" => i <= j
    ELSE 0

\* ---------------------------------------------- generate_sitemap.py: pure
GenDefaultPriority == 50

GenDefaultExtensions == <<".html", ".htm", ".php", ".md">>

GenSkippedDirs == {"node_modules", "__pycache__", ".venv", "venv", ".git"}

\* SitemapGenerator.get_file_priority
GenGetFilePriority(config, file_path) ==
    LET priority_rules == CfgGet(config, "priority_rules", <<>>)
        file_name == Lower(Basename(file_path))
        name_without_ext == SplitExtRoot(file_name)
        Hit(keyword) == Contains(name_without_ext, keyword) \/ Contains(Lower(file_path), keyword)
        hit == FirstRule(priority_rules, {i \in 1..Len(priority_rules) : Hit(priority_rules[i].k)})
    IN  IF hit # 0 THEN priority_rules[hit].v
        ELSE RuleGet(priority_rules, "default", GenDefaultPriority)

\* SitemapGenerator.get_change_frequency
GenGetChangeFrequency(config, file_path) ==
    LET changefreq_rules == CfgGet(config, "changefreq_rules", <<>>)
        Hit(keyword) == Contains(Lower(file_path), keyword)
        hit == FirstRule(changefreq_rules, {i \in 1..Len(changefreq_rules) : Hit(changefreq_rules[i].k)})
    IN  IF hit # 0 THEN changefreq_rules[hit].v
        ELSE RuleGet(changefreq_rules, "default", "weekly")

\* SitemapGenerator.should_exclude_file
GenShouldExcludeFile(config, file_path) ==
    LET exclude_patterns == CfgGet(config, "exclude_patterns", <<>>)
    IN  \E i \in 1..Len(exclude_patterns) :
            ReSearch(ReplaceAll(ReplaceAll(exclude_patterns[i], ".*", ".*"), "*", "[^/]*"), file_path)

\* urllib.parse.urljoin(base, ref) for a ref that starts with one "/": the
\* scheme and host of base, then ref (the path of base is replaced); a base
\* without a scheme contributes nothing
UrlOrigin(base) ==
    IF Contains(base, "://")
    THEN LET host == DropFirst(base, IndexOf(base, "://") + 2)
         IN  IF Contains(host, "/")
             THEN SubSeq(base, 1, IndexOf(base, "://") + 2 + IndexOf(host, "/") - 1)
             ELSE base
    ELSE ""

UrlJoin(base, ref) == UrlOrigin(base) \o ref

\* str.rstrip('/')
RECURSIVE RStripSlash(_)
RStripSlash(s) == IF EndsWith(s, "/") THEN RStripSlash(SubSeq(s, 1, Len(s) - 1)) ELSE s

\* SitemapGenerator.convert_path_to_url; base_url is self.base_url
GenConvertPathToUrl(base_url, config, file_path) ==
    LET p0 == LStrip(ReplaceAll(file_path, "\\", "/"), "./")
        readme_as_index == CfgGet(CfgGet(config, "auto_detect", << >>), "readme_as_index", TRUE)
        p1 == IF p0 = "README.md" /\ readme_as_index THEN ""
              ELSE IF EndsWith(p0, "/index.html") \/ EndsWith(p0, "/index.htm")
                   THEN SubSeq(p0, 1, LastIndexOf(p0, "/index.") - 1) \o "/"
              ELSE IF p0 = "index.html" \/ p0 = "index.htm" THEN ""
              ELSE IF EndsWith(p0, ".md") THEN SubSeq(p0, 1, Len(p0) - 3) \o ".html"
              ELSE p0
        p2 == IF p1 # "" /\ ~StartsWith(p1, "/") THEN "/" \o p1
              ELSE IF p1 = "" THEN "/" ELSE p1
    IN  UrlJoin(base_url, p2)

\* the os.walk of scan_directory descends into a directory unless its name
\* starts with "." or is one of the skipped names
GenWalked(path) ==
    \A i \in 1..Len(DirComponents(path)) :
        LET d == DirComponents(path)[i]
        IN  ~StartsWith(d, ".") /\ d \notin GenSkippedDirs

\* the files of the tree for which scan_directory appends an entry
GenScanned(config, tree) ==
    LET extensions == CfgGet(config, "file_extensions", GenDefaultExtensions)
    IN  {f \in tree :
            /\ GenWalked(f)
            /\ \E i \in 1..Len(extensions) : EndsWith(Lower(Basename(f)), extensions[i])
            /\ ~GenShouldExcludeFile(config, f)}


\* -------------------------------------------------- environment's answers
Running == -1      \* no exit code yet

NoHistory == -1    \* git log printed nothing, or failed: get_git_last_modified is None

OSErr == -1        \* os.path.getmtime raised OSError

Secs == 0..MaxSec

\* git log -1 --format=%ct: whole seconds, or nothing
GitReads == Secs \cup {NoHistory}

\* os.path.getmtime: a float, here in ticks, or OSError
FsReads == (0..(MaxSec * TicksPerSec + TicksPerSec - 1)) \cup {OSErr}

\* int(mtime), and the %S of datetime.fromtimestamp(mtime)
WholeSeconds(ticks) == ticks \div TicksPerSec

\* datetime.now() of the run, not before any file time
NowSec == MaxSec

\* ------------------------------------------- generate_sitemap.py: emitter
\* f"{priority:.1f}" of a priority in hundredths below 2.0, in tenths: the
\* double nearest to the decimal is rounded, so x.x5 goes up or down with
\* its binary expansion (0.05 -> 0.1, 0.15 -> 0.1, 0.25 -> 0.2, ...)
FivesRoundedUp == {5, 45, 55, 65, 75, 105, 135, 155, 175, 185}

Format1fTenths(p) ==
    IF p % 10 > 5 \/ (p % 10 = 5 /\ p \in FivesRoundedUp) THEN p \div 10 + 1 ELSE p \div 10

\* the order of self.urls.sort(key=lambda x: (-x['priority'], x['loc']))
GenSortsBefore(a, b) ==
    \/ a.priority > b.priority
    \/ a.priority = b.priority /\ StrLess(a.loc, b.loc)

\* list.sort is stable: x goes after the entries that do not sort after it
GenInsert(sorted, x) ==
    LET n == Cardinality({i \in 1..Len(sorted) : ~GenSortsBefore(x, sorted[i])})
    IN  SubSeq(sorted, 1, n) \o <<x>> \o SubSeq(sorted, n + 1, Len(sorted))

RECURSIVE GenSort(_)
GenSort(urls) ==
    IF urls = << >> THEN << >>
    ELSE GenInsert(GenSort(SubSeq(urls, 1, Len(urls) - 1)), urls[Len(urls)])

Omitted == "<omitted>"

NoPriority == -1   \* no <priority> element

\* a <url> element whose priority is left out when it is 0
GenUrlElementSkipsZero(url_data) ==
    [loc |-> url_data.loc,
     lastmod |-> url_data.lastmod,
     changefreq |-> IF url_data.changefreq = "" THEN Omitted ELSE url_data.changefreq,
     priority |-> IF url_data.priority = 0 THEN NoPriority ELSE Format1fTenths(url_data.priority)]

\* one <url> element of generate_xml: an empty changefreq is left out
GenUrlElement(url_data) ==
    [loc |-> url_data.loc,
     lastmod |-> url_data.lastmod,
     changefreq |-> IF url_data.changefreq = "" THEN Omitted ELSE url_data.changefreq,
     priority |-> Format1fTenths(url_data.priority)]

\* SitemapGenerator.generate_xml: the <url> elements of the urlset, in order
GenGenerateXml(urls) == [i \in 1..Len(urls) |-> GenUrlElement(GenSort(urls)[i])]

\* --------------------------------------- generate_sitemap.py: the script
ChangefreqEnum == {"always", "hourly", "daily", "weekly", "monthly", "yearly", "never"}

\* configs the script is run with: none of the keys; a typical rule set; and
\* a rule set with values outside the protocol's ranges
GenConfigTypical ==
    ("priority_rules" :> <<[k |-> "index", v |-> 100], [k |-> "about", v |-> 80],
                           [k |-> "default", v |-> 50]>>)
    @@ ("changefreq_rules" :> <<[k |-> "index", v |-> "daily"], [k |-> "default", v |-> "weekly"]>>)

GenConfigLoose ==
    ("priority_rules" :> <<[k |-> "about", v |-> 150]>>)
    @@ ("changefreq_rules" :> <<[k |-> "post", v |-> "sometimes"]>>)
    @@ ("exclude_patterns" :> <<"drafts/.*">>)

GenConfigs == {<< >>, GenConfigTypical, GenConfigLoose}

GenBaseUrls == {"https://x.io"}

\* the content trees are the subsets of these files
GenTreeFiles == {"index.html", "README.md", "about.html", "blog/post1.md", "node_modules/x.html"}

NoFile == [state |-> "none", urls |-> << >>]

OldFile == [state |-> "old", urls |-> << >>]

InitGen ==
    /\ gPc = "start"
    /\ gConfigFile \in {"ok", "missing", "malformed"}
    /\ gConfig = << >>
    /\ gBaseUrl \in GenBaseUrls
    /\ gTree \in SUBSET GenTreeFiles
    /\ gTodo = {}
    /\ gUrls = << >>
    /\ gOutFile \in {NoFile, OldFile}
    /\ gExit = Running
    /\ GenAlone

\* main: json.load of args.config; FileNotFoundError or JSONDecodeError
\* exits 1, otherwise SitemapGenerator(args.base_url, config)
GenLoadConfig ==
    /\ gPc = "start"
    /\ IF gConfigFile = "ok"
       THEN /\ \E c \in GenConfigs : gConfig' = c
            /\ gBaseUrl' = RStripSlash(gBaseUrl)
            /\ gTodo' = gTree
            /\ gPc' = "scan"
            /\ gExit' = gExit
       ELSE /\ gPc' = "exit"
            /\ gExit' = 1
            /\ UNCHANGED <<gConfig, gBaseUrl, gTodo>>
    /\ UNCHANGED <<gConfigFile, gTree, gUrls, gOutFile>>
    /\ UNCHANGED GenOthers

\* os.walk is top-down: a directory's files come before the files below it
GenWalkNext(f, todo) ==
    \A g \in todo :
        ~(Dirname(g) # Dirname(f) /\ (Dirname(g) = "" \/ StartsWith(Dirname(f), Dirname(g) \o "/")))

\* get_git_last_modified, else the file's mtime, else now (scan_directory)
GenLastmod(git, mtime) ==
    IF git # NoHistory THEN git
    ELSE IF mtime # OSErr THEN WholeSeconds(mtime)
    ELSE NowSec

\* the entry scan_directory appends for a file
GenEntry(base_url, config, relative_path, git, mtime) ==
    [loc |-> GenConvertPathToUrl(base_url, config, relative_path),
     lastmod |-> GenLastmod(git, mtime),
     changefreq |-> GenGetChangeFrequency(config, relative_path),
     priority |-> GenGetFilePriority(config, relative_path),
     file_path |-> relative_path]

\* scan_directory: one file of the walk
GenScanFile ==
    /\ gPc = "scan"
    /\ \E f \in gTodo :
        /\ GenWalkNext(f, gTodo)
        /\ gTodo' = gTodo \ {f}
        /\ IF f \in GenScanned(gConfig, gTree)
           THEN \E git \in GitReads, mtime \in FsReads :
                    gUrls' = Append(gUrls, GenEntry(gBaseUrl, gConfig, f, git, mtime))
           ELSE gUrls' = gUrls
    /\ UNCHANGED <<gPc, gConfigFile, gConfig, gBaseUrl, gTree, gOutFile, gExit>>
    /\ UNCHANGED GenOthers

\* write_sitemap and the end of main: no URLs or an IOError exit 1; the
\* file is opened for writing (truncated) before the text is written
GenWriteSitemap ==
    /\ gPc = "scan" /\ gTodo = {}
    /\ gPc' = "exit"
    /\ IF gUrls = << >>
       THEN gExit' = 1 /\ UNCHANGED <<gUrls, gOutFile>>
       ELSE /\ gUrls' = GenSort(gUrls)
            /\ \E io \in {"ok", "open fails", "write fails"} :
                CASE io = "ok" ->
                        /\ gOutFile' = [state |-> "written", urls |-> GenGenerateXml(gUrls)]
                        /\ gExit' = 0
                  [] io = "open fails" -> gOutFile' = gOutFile /\ gExit' = 1
                  [] io = "write fails" ->
                        /\ gOutFile' = [state |-> "truncated", urls |-> << >>]
                        /\ gExit' = 1
    /\ UNCHANGED <<gConfigFile, gConfig, gBaseUrl, gTree, gTodo>>
    /\ UNCHANGED GenOthers

NextGen == GenLoadConfig \/ GenScanFile \/ GenWriteSitemap

SpecGen == InitGen /\ [][NextGen]_vars

\* ------------------------------------------- generate_sitemap.py: claims
\* the reorderings of a list
Permuted(q) ==
    {[i \in 1..Len(q) |-> q[f[i]]] :
        f \in {g \in [1..Len(q) -> 1..Len(q)] : \A i, j \in 1..Len(q) : g[i] = g[j] => i = j}}

ElementsOrdered(doc) ==
    \A i \in 1..(Len(doc) - 1) :
        \/ doc[i].priority > doc[i + 1].priority
        \/ doc[i].priority = doc[i + 1].priority /\ ~StrLess(doc[i + 1].loc, doc[i].loc)

\* C6: the <url> elements generate_xml emits are in order of priority
\* descending, then loc ascending, and every permutation of the entry list
\* is emitted as the same document.
C6_EmitOrderedAndPermutationInvariant ==
    /\ ElementsOrdered(GenGenerateXml(gUrls))
    /\ \A q \in Permuted(gUrls) : GenGenerateXml(q) = GenGenerateXml(gUrls)

\* C7: a written sitemap holds no two <url> elements with the same loc.
C7_LocUniqueInDocument ==
    gOutFile.state = "written" =>
        \A i, j \in 1..Len(gOutFile.urls) :
            gOutFile.urls[i].loc = gOutFile.urls[j].loc => i = j

HasBadChangefreq(config) ==
    LET rules == CfgGet(config, "changefreq_rules", << >>)
    IN  \E i \in 1..Len(rules) : rules[i].v \notin ChangefreqEnum

\* C9: a config with a changefreq outside the seven protocol values is fatal
\* when the config is loaded: the run ends with a non-zero exit code, having
\* scanned nothing, and no written sitemap holds such a value.
C9_BadChangefreqIsFatal ==
    (gPc \in {"scan", "exit"} /\ gConfigFile = "ok" /\ HasBadChangefreq(gConfig)) =>
        /\ gPc = "exit" => gExit # 0 /\ gUrls = << >>
        /\ \A i \in 1..Len(gOutFile.urls) : gOutFile.urls[i].changefreq \in ChangefreqEnum

\* ------------------------------ universal_sitemap_generator.py: classifier
\* default_config of load_config
UniDefaultConfig ==
    ("file_extensions" :> <<".html", ".htm", ".php", ".md", ".pdf">>)
    @@ ("exclude_patterns" :> <<".*\\.git.*", ".*node_modules.*">>)
    @@ ("include_patterns" :> << >>)
    @@ ("priority_rules" :> <<[k |-> "index", v |-> 100], [k |-> "home", v |-> 100],
                              [k |-> "main", v |-> 90], [k |-> "about", v |-> 80],
                              [k |-> "contact", v |-> 80], [k |-> "default", v |-> 50]>>)
    @@ ("changefreq_rules" :> <<[k |-> "index", v |-> "daily"], [k |-> "blog", v |-> "weekly"],
                                [k |-> "news", v |-> "daily"], [k |-> "static", v |-> "monthly"],
                                [k |-> "default", v |-> "weekly"]>>)
    @@ ("auto_detect" :> (("readme_as_index" :> TRUE) @@ ("scan_html_links" :> TRUE)))

\* load_config: default_config.update(user_config)
UniLoadConfig(user_config) == user_config @@ UniDefaultConfig

\* pathlib's PurePath.stem of a file name
PathStem(name) ==
    LET d == LastIndexOf(name, ".")
    IN  IF 1 < d /\ d < Len(name) THEN SubSeq(name, 1, d - 1) ELSE name

\* str(project_path / relative_path)
UniAbsolute(project_path, relative_path) == project_path \o "/" \o relative_path

ContainsAny(s, words) == \E w \in words : Contains(s, w)

\* SitemapGenerator.get_file_priority; file_path is absolute
UniGetFilePriority(config, file_path) ==
    LET path_str == Lower(file_path)
        filename == Lower(PathStem(Basename(file_path)))
        priority_rules == CfgGet(config, "priority_rules", << >>)
        Hit(key) == Contains(filename, key) \/ Contains(path_str, key)
        hit == FirstRule(priority_rules, {i \in 1..Len(priority_rules) : Hit(priority_rules[i].k)})
    IN  IF hit # 0 THEN priority_rules[hit].v
        ELSE IF filename \in {"index", "home", "main"} THEN 100
        ELSE IF Contains(filename, "index") THEN 90
        ELSE IF ContainsAny(path_str, {"about", "contact", "services"}) THEN 80
        ELSE IF ContainsAny(path_str, {"blog", "news", "posts"}) THEN 70
        ELSE RuleGet(priority_rules, "default", 50)

\* SitemapGenerator.get_change_frequency; file_path is absolute
UniGetChangeFrequency(config, file_path) ==
    LET path_str == Lower(file_path)
        changefreq_rules == CfgGet(config, "changefreq_rules", << >>)
    IN  IF Contains(path_str, "index") \/ Contains(path_str, "home")
        THEN RuleGet(changefreq_rules, "index", "weekly")
        ELSE IF ContainsAny(path_str, {"blog", "news", "posts"})
        THEN RuleGet(changefreq_rules, "blog", "weekly")
        ELSE IF ContainsAny(path_str, {"about", "contact", "terms", "privacy"})
        THEN RuleGet(changefreq_rules, "static", "monthly")
        ELSE RuleGet(changefreq_rules, "default", "weekly")

\* ---------------------------------------- generate_sitemaps.py: classifier
CONTENT_DIR == "ai-llm-blog"

DAILY_PATHS == {CONTENT_DIR \o "/news/", "news/"}

WEEKLY_PATHS == {CONTENT_DIR \o "/tutorials/", "tutorials/", CONTENT_DIR \o "/community/", "community/"}

MONTHLY_PATHS == {CONTENT_DIR \o "/posts/", "posts/", CONTENT_DIR \o "/blog/", "blog/",
                  CONTENT_DIR \o "/resources/", "resources/"}

\* determine_change_frequency
MultiDetermineChangeFrequency(file_path) ==
    IF ContainsAny(file_path, DAILY_PATHS) THEN "daily"
    ELSE IF ContainsAny(file_path, WEEKLY_PATHS) THEN "weekly"
    ELSE IF ContainsAny(file_path, MONTHLY_PATHS) THEN "monthly"
    ELSE "weekly"

\* determine_priority: the strings "1.0" .. "0.5", in hundredths
MultiDeterminePriority(file_path) ==
    IF EndsWith(file_path, "index.html")
    THEN IF file_path = "index.html" \/ file_path = CONTENT_DIR \o "/index.html" THEN 100 ELSE 90
    ELSE IF ContainsAny(file_path, DAILY_PATHS) THEN 80
    ELSE IF ContainsAny(file_path, WEEKLY_PATHS) THEN 70
    ELSE IF ContainsAny(file_path, MONTHLY_PATHS) THEN 60
    ELSE 50

\* ------------------------------------------------- classifiers: the checks
ClsKeywords == {"index", "html", "default"}

ClsPriorityValues == {30, 100, 150}

ClsChangefreqValues == {"daily", "sometimes"}

\* the rule tables of at most MaxRules rules with distinct keywords
RuleTables(values) ==
    UNION {{r \in [1..n -> [k : ClsKeywords, v : values]] :
                \A i, j \in 1..n : r[i].k = r[j].k => i = j} : n \in 0..MaxRules}

\* a classifier reads one rule table: configs with a priority table, and
\* configs with a changefreq table (the other key absent)
ClsConfigs ==
    {("priority_rules" :> r) : r \in RuleTables(ClsPriorityValues)}
    \cup {("changefreq_rules" :> r) : r \in RuleTables(ClsChangefreqValues)}
    \cup {<< >>}

ClsPaths == {"index.html", "index.htm", "about.html", "blog/index.html", "blog/post1.md",
             "news/today.html"}

ClsRoots == {"/srv/site", "/home/main/www"}

InitClassify ==
    /\ cPc = "ready"
    /\ cScript \in {"generate_sitemap", "universal_sitemap_generator", "generate_sitemaps"}
    /\ cConfig \in IF cScript = "generate_sitemaps" THEN {<< >>} ELSE ClsConfigs
    /\ cRoot \in IF cScript = "universal_sitemap_generator" THEN ClsRoots ELSE {""}
    /\ cPath \in ClsPaths
    /\ cResult = << >>
    /\ ClassifyAlone

\* generate_sitemap.py classifies relative_path (scan_directory)
ClassifyGen ==
    /\ cPc = "ready" /\ cScript = "generate_sitemap"
    /\ cResult' = [priority |-> GenGetFilePriority(cConfig, cPath),
                   changefreq |-> GenGetChangeFrequency(cConfig, cPath)]
    /\ cPc' = "done"
    /\ UNCHANGED <<cScript, cConfig, cRoot, cPath>>
    /\ UNCHANGED ClassifyOthers

\* universal_sitemap_generator.py classifies the absolute path, with the
\* loaded config (generate_sitemap_data)
ClassifyUni ==
    /\ cPc = "ready" /\ cScript = "universal_sitemap_generator"
    /\ cResult' = [priority |-> UniGetFilePriority(UniLoadConfig(cConfig), UniAbsolute(cRoot, cPath)),
                   changefreq |-> UniGetChangeFrequency(UniLoadConfig(cConfig), UniAbsolute(cRoot, cPath))]
    /\ cPc' = "done"
    /\ UNCHANGED <<cScript, cConfig, cRoot, cPath>>
    /\ UNCHANGED ClassifyOthers

\* generate_sitemaps.py classifies the glob's path (create_url_element)
ClassifyMulti ==
    /\ cPc = "ready" /\ cScript = "generate_sitemaps"
    /\ cResult' = [priority |-> MultiDeterminePriority(cPath),
                   changefreq |-> MultiDetermineChangeFrequency(cPath)]
    /\ cPc' = "done"
    /\ UNCHANGED <<cScript, cConfig, cRoot, cPath>>
    /\ UNCHANGED ClassifyOthers

NextClassify == ClassifyGen \/ ClassifyUni \/ ClassifyMulti

SpecClassify == InitClassify /\ [][NextClassify]_vars

\* C8: for every config the generator accepts and every path, the priority
\* is within [0.0, 1.0] and the changefreq is one of the seven protocol values.
C8_ClassifyWithinRange ==
    cPc = "done" =>
        /\ 0 <= cResult.priority /\ cResult.priority <= 100
        /\ cResult.changefreq \in ChangefreqEnum

\* index.* directly in the project root
IsRootIndex(path) == ~Contains(path, "/") /\ StartsWith(path, "index.")

\* C10: a file index.* at the project root is classified with priority 1.0,
\* whatever the priority rules are.
C10_RootIndexPriorityOne ==
    (cPc = "done" /\ IsRootIndex(cPath)) => cResult.priority = 100

\* ----------------------------------- update_sitemap_if_needed_today.py
TodayDefaultExtensions == <<".html", ".htm", ".php", ".md", ".markdown">>

\* sitemap_path of should_regenerate_sitemap
TodaySitemapPath == "sitemap.xml"

\* find_content_files: os.walk descends into a directory unless a pattern,
\* its ".*" removed, occurs in os.path.join(root, d) or d starts with "."
TodayWalked(config, path) ==
    LET exclude_patterns == CfgGet(config, "exclude_patterns", << >>)
    IN  \A j \in 1..Len(path) :
            CharAt(path, j) = "/" =>
                LET dir == SubSeq(path, 1, j - 1)
                IN  /\ ~StartsWith(Basename(dir), ".")
                    /\ ~\E i \in 1..Len(exclude_patterns) :
                            Contains("./" \o dir, ReplaceAll(exclude_patterns[i], ".*", ""))

\* find_content_files
TodayFindContentFiles(config, tree) ==
    LET extensions == CfgGet(config, "file_extensions", TodayDefaultExtensions)
        exclude_patterns == CfgGet(config, "exclude_patterns", << >>)
    IN  {f \in tree :
            /\ TodayWalked(config, f)
            /\ \E i \in 1..Len(extensions) : EndsWith(Lower(Basename(f)), extensions[i])
            /\ ~\E i \in 1..Len(exclude_patterns) :
                    Contains(f, ReplaceAll(exclude_patterns[i], ".*", ""))}

NotRead == -2      \* os.path.getmtime was not called

\* a timestamp that is the filesystem's whatever git answers
TodayTimestampFsOnly(git, mtime) ==
    IF mtime \in 0..(MaxSec * TicksPerSec + TicksPerSec - 1) THEN WholeSeconds(mtime) ELSE OSErr

\* get_git_last_modified(path), then int(os.path.getmtime(path)) if it is
\* None: the timestamp, or OSErr when getmtime raises
TodayTimestamp(git, mtime) ==
    IF git # NoHistory THEN git
    ELSE IF mtime # OSErr THEN WholeSeconds(mtime)
    ELSE OSErr

\* a comparison that also takes an equal time for newer
TodayIsNewerOrEqual(file_mtime, sitemap_mtime) == file_mtime >= sitemap_mtime

\* file_mtime > sitemap_mtime
TodayIsNewer(file_mtime, sitemap_mtime) == file_mtime > sitemap_mtime

\* a main that regenerates whatever the staleness check returned
TodayMainAlways(regen) == TRUE

\* main: if should_regenerate_sitemap(config, args.force)
TodayMainRegenerates(regen) == regen = "yes"

\* what the two sources answer for one path: the mtime is asked for only
\* when git has no time for the path
PathReads ==
    {[git |-> g, fs |-> NotRead] : g \in Secs}
    \cup {[git |-> NoHistory, fs |-> m] : m \in FsReads}

TodayConfigs == {<< >>, ("exclude_patterns" :> <<"about.*">>)}

TodayBaseUrl == "https://x.io"

TodayOutputs == {"sitemap.xml", "public/sitemap.xml"}

TodayTreeFiles == {"index.html", "about.html", ".git/x.html"}

\* the locs of the sitemap generate_sitemap.py writes for the tree
GenLocs(base_url, config, tree) ==
    {GenConvertPathToUrl(base_url, config, f) : f \in GenScanned(config, tree)}

TodayLocs == GenLocs(TodayBaseUrl, << >>, TodayTreeFiles)

\* a sitemap file: none, or one that lists locs
NoSitemap == [state |-> "none", locs |-> {}]

ExistingSitemaps == {[state |-> "old", locs |-> l] : l \in SUBSET TodayLocs}

\* a directory at the path: os.path.exists is true of it, open(path, 'w') raises
DirectoryThere == [state |-> "dir", locs |-> {}]

InitToday ==
    /\ tPc = "start"
    /\ tArgs \in [output : TodayOutputs, force : BOOLEAN]
    /\ tConfigFile \in {"ok", "missing", "malformed"}
    /\ tConfig = << >>
    /\ tGit \in BOOLEAN
    /\ tTree \in SUBSET TodayTreeFiles
    /\ tFiles \in [TodayOutputs -> ExistingSitemaps \cup {NoSitemap, DirectoryThere}]
    /\ tFiles[TodaySitemapPath] # DirectoryThere
    /\ \A path \in TodayOutputs \ {TodaySitemapPath, tArgs.output} : tFiles[path] = NoSitemap
    /\ tSitemapRead = << >>
    /\ tSitemapMtime = NotRead
    /\ tTodo = {}
    /\ tFileRead = << >>
    /\ tNewer = {}
    /\ tRegen = "unset"
    /\ tGenRuns = 0
    /\ tExit = Running
    /\ TodayAlone

\* main: json.load of args.config; FileNotFoundError or JSONDecodeError exits 1
TodayLoadConfig ==
    /\ tPc = "start"
    /\ IF tConfigFile = "ok"
       THEN /\ \E c \in TodayConfigs : tConfig' = c
            /\ tPc' = "check"
            /\ tExit' = tExit
       ELSE /\ tPc' = "exit"
            /\ tExit' = 1
            /\ tConfig' = tConfig
    /\ UNCHANGED <<tArgs, tConfigFile, tGit, tTree, tFiles, tSitemapRead, tSitemapMtime,
                   tTodo, tFileRead, tNewer, tRegen, tGenRuns>>
    /\ UNCHANGED TodayOthers

\* should_regenerate_sitemap up to the loop: force, a missing sitemap.xml or
\* an OSError (git cannot be run, or getmtime fails) return True; otherwise
\* sitemap_mtime is set and the content files are found
TodayCheckStart ==
    /\ tPc = "check"
    /\ IF tArgs.force \/ tFiles[TodaySitemapPath].state = "none"
       THEN /\ tRegen' = "yes" /\ tPc' = "decided"
            /\ UNCHANGED <<tSitemapRead, tSitemapMtime, tTodo>>
       ELSE IF ~tGit
       THEN /\ tRegen' = "yes" /\ tPc' = "decided"
            /\ tSitemapRead' = [git |-> OSErr, fs |-> NotRead]
            /\ UNCHANGED <<tSitemapMtime, tTodo>>
       ELSE \E r \in PathReads :
            /\ tSitemapRead' = r
            /\ IF TodayTimestamp(r.git, r.fs) = OSErr
               THEN /\ tRegen' = "yes" /\ tPc' = "decided"
                    /\ UNCHANGED <<tSitemapMtime, tTodo>>
               ELSE /\ tSitemapMtime' = TodayTimestamp(r.git, r.fs)
                    /\ tTodo' = TodayFindContentFiles(tConfig, tTree)
                    /\ tPc' = "scan"
                    /\ tRegen' = tRegen
    /\ UNCHANGED <<tArgs, tConfigFile, tConfig, tGit, tTree, tFiles, tFileRead, tNewer,
                   tGenRuns, tExit>>
    /\ UNCHANGED TodayOthers

\* one pass of the loop over content_files: an OSError skips the file
TodayCheckFile ==
    /\ tPc = "scan"
    /\ \E f \in tTodo, r \in PathReads :
        /\ tTodo' = tTodo \ {f}
        /\ tFileRead' = (f :> r) @@ tFileRead
        /\ tNewer' = IF /\ TodayTimestamp(r.git, r.fs) # OSErr
                        /\ TodayIsNewer(TodayTimestamp(r.git, r.fs), tSitemapMtime)
                     THEN tNewer \cup {f} ELSE tNewer
    /\ UNCHANGED <<tPc, tArgs, tConfigFile, tConfig, tGit, tTree, tFiles, tSitemapRead,
                   tSitemapMtime, tRegen, tGenRuns, tExit>>
    /\ UNCHANGED TodayOthers

\* the end of should_regenerate_sitemap: True iff newer_files is not empty
TodayDecide ==
    /\ tPc = "scan" /\ tTodo = {}
    /\ tRegen' = IF tNewer # {} THEN "yes" ELSE "no"
    /\ tPc' = "decided"
    /\ UNCHANGED <<tArgs, tConfigFile, tConfig, tGit, tTree, tFiles, tSitemapRead,
                   tSitemapMtime, tTodo, tFileRead, tNewer, tGenRuns, tExit>>
    /\ UNCHANGED TodayOthers

\* main, regeneration needed: run_sitemap_generator starts
\*   python generate_sitemap.py <base_url> --config .. --output .. --verbose
\* generate_sitemap.py takes the base URL as the required option --base-url,
\* so its argument parser ends it with exit code 2 before anything is read
\* or written (as the interpreter does when the script is not in the working
\* directory); the CalledProcessError makes main exit 1
TodayRunGenerator ==
    /\ tPc = "decided" /\ TodayMainRegenerates(tRegen)
    /\ tGenRuns' = tGenRuns + 1
    /\ tPc' = "exit"
    /\ tExit' = 1
    /\ UNCHANGED <<tArgs, tConfigFile, tConfig, tGit, tTree, tFiles, tSitemapRead,
                   tSitemapMtime, tTodo, tFileRead, tNewer, tRegen>>
    /\ UNCHANGED TodayOthers

\* main, no regeneration needed: a minimal sitemap is written when
\* os.path.exists(args.output) is false; an IOError exits 1
TodaySkip ==
    /\ tPc = "decided" /\ ~TodayMainRegenerates(tRegen)
    /\ tPc' = "exit"
    /\ IF tFiles[tArgs.output].state = "none"
       THEN \E io \in {"ok", "fails"} :
            IF io = "ok"
            THEN /\ tFiles' = [tFiles EXCEPT ![tArgs.output] =
                        [state |-> "minimal", locs |-> {TodayBaseUrl \o "/"}]]
                 /\ tExit' = 0
            ELSE tFiles' = tFiles /\ tExit' = 1
       ELSE tFiles' = tFiles /\ tExit' = 0
    /\ UNCHANGED <<tArgs, tConfigFile, tConfig, tGit, tTree, tSitemapRead, tSitemapMtime,
                   tTodo, tFileRead, tNewer, tRegen, tGenRuns>>
    /\ UNCHANGED TodayOthers

NextToday ==
    \/ TodayLoadConfig \/ TodayCheckStart \/ TodayCheckFile \/ TodayDecide
    \/ TodayRunGenerator \/ TodaySkip

SpecToday == InitToday /\ [][NextToday]_vars

\* the last-modified time of a path, in the whole seconds the check
\* compares: the commit time git gives, else the file's mtime; -1 if neither
LastModified(read) ==
    IF read.git \in Secs THEN read.git
    ELSE IF read.fs \in 0..(MaxSec * TicksPerSec + TicksPerSec - 1) THEN read.fs \div TicksPerSec
    ELSE -1

\* find_content_files, tabulated over the configs and trees of a run
ContentFilesOf ==
    {<<c, t, TodayFindContentFiles(c, t)>> : c \in TodayConfigs, t \in SUBSET TodayTreeFiles}

\* the locs the generator derives, tabulated over the configs and trees of a run
GeneratedLocsOf ==
    {<<c, t, GenLocs(TodayBaseUrl, c, t)>> : c \in TodayConfigs, t \in SUBSET TodayTreeFiles}

\* should_regenerate_sitemap compared every content file with a sitemap.xml
\* that exists and has a time, force not being set
TodayCompared ==
    /\ tPc \in {"decided", "exit"}
    /\ ~tArgs.force
    /\ tFiles[TodaySitemapPath].state = "old"
    /\ tGit /\ tSitemapRead # << >> /\ LastModified(tSitemapRead) # -1
    /\ <<tConfig, tTree, DOMAIN tFileRead>> \in ContentFilesOf

NewerFiles ==
    {f \in DOMAIN tFileRead : LastModified(tFileRead[f]) > LastModified(tSitemapRead)}

EqualFiles ==
    {f \in DOMAIN tFileRead : LastModified(tFileRead[f]) = LastModified(tSitemapRead)}

\* C1: whenever there is no sitemap file at the configured output path,
\* should_regenerate_sitemap returns True, with or without --force.
C1_MissingSitemapRegenerates ==
    (tPc = "decided" /\ tFiles[tArgs.output].state = "none") => tRegen = "yes"

C3_UrlSetDifferenceRegenerates ==
    (/\ TodayCompared /\ tArgs.output = TodaySitemapPath
     /\ NewerFiles = {}
     /\ <<tConfig, tTree, tFiles[TodaySitemapPath].locs>> \notin GeneratedLocsOf)
        => tRegen = "yes"

UnifiedSite == "https://sednabcn.github.io/"

NoLastmod == -1    \* url.find('sm:lastmod', ns) is None

\* has_structural_changes: True without a sitemap commit, else whether the
\* diff lists anything; False when a query raises
UnifiedHasStructuralChanges(git) ==
    IF git.log = "fail" THEN FALSE
    ELSE IF git.log = "empty" THEN TRUE
    ELSE IF git.diff = "fail" THEN FALSE
    ELSE git.diff = "changes"

\* update_full_sitemap: the repository file a loc stands for
UnifiedFilePath(url_path) ==
    LET file_path == ReplaceAll(url_path, UnifiedSite, "")
        rooted == IF file_path = "" THEN "index.html" ELSE file_path
    IN  IF ~Contains(Basename(rooted), ".") /\ ~EndsWith(rooted, "/")
        THEN rooted \o "/index.html"
        ELSE IF EndsWith(rooted, "/") THEN rooted \o "index.html"
        ELSE rooted

\* update_full_sitemap on one <url>: the commit date of its file, if the
\* file exists and git has a date, becomes its lastmod
UnifiedFullUrl(url, tree, git) ==
    IF UnifiedFilePath(url.loc) \in tree /\ git # NoHistory
    THEN [url EXCEPT !.lastmod = git]
    ELSE url

\* every <url> gets current_date, with a new lastmod element where it has none
UnifiedTimestampEveryUrl(url) == [url EXCEPT !.lastmod = NowSec]

\* update_timestamps_only on one <url>: a lastmod element gets current_date
UnifiedTimestampUrl(url) ==
    IF url.lastmod # NoLastmod THEN [url EXCEPT !.lastmod = NowSec] ELSE url

UnifiedLocs ==
    {"https://sednabcn.github.io/", "https://sednabcn.github.io/about.html",
     "https://sednabcn.github.io/docs"}

\* about.html is a page that was deleted
UnifiedTreeFiles == {"index.html", "docs/index.html"}

\* the other children of a <url>: the root page is daily and 1.0
UnifiedChangefreqOf(loc) == IF loc = UnifiedSite THEN "daily" ELSE "monthly"

UnifiedPriorityOf(loc) == IF loc = UnifiedSite THEN 100 ELSE 80

UnifiedUrls ==
    {[loc |-> l, lastmod |-> t, changefreq |-> UnifiedChangefreqOf(l),
      priority |-> UnifiedPriorityOf(l)] : l \in UnifiedLocs, t \in Secs \cup {NoLastmod}}

UnifiedSitemaps ==
    {[state |-> "none", urls |-> << >>], [state |-> "invalid", urls |-> << >>]}
    \cup {[state |-> "ok", urls |-> u] : u \in UNION {[1..n -> UnifiedUrls] : n \in 0..MaxUrls}}

InitUnified ==
    /\ uPc = "start"
    /\ uGit \in [log : {"fail", "empty", "commit"}, diff : {"fail", "empty", "changes"}]
    /\ uFile \in UnifiedSitemaps
    /\ uTree \in SUBSET UnifiedTreeFiles
    /\ uStructural = FALSE
    /\ uRoot = << >>
    /\ uMode = "none"
    /\ uExit = Running
    /\ UnifiedAlone

\* main: structural_changes = has_structural_changes()
UnifiedCheck ==
    /\ uPc = "start"
    /\ uStructural' = UnifiedHasStructuralChanges(uGit)
    /\ uPc' = "parse"
    /\ UNCHANGED <<uGit, uFile, uTree, uRoot, uMode, uExit>>
    /\ UNCHANGED UnifiedOthers

\* main: ET.parse(sitemap_path); a missing or invalid file gives an empty
\* urlset and structural_changes = True
UnifiedParse ==
    /\ uPc = "parse"
    /\ IF uFile.state = "ok"
       THEN uRoot' = uFile.urls /\ uStructural' = uStructural
       ELSE uRoot' = << >> /\ uStructural' = TRUE
    /\ uPc' = "update"
    /\ UNCHANGED <<uGit, uFile, uTree, uMode, uExit>>
    /\ UNCHANGED UnifiedOthers

\* main: update_full_sitemap when structural_changes
UnifiedUpdateFull ==
    /\ uPc = "update" /\ uStructural
    /\ \E dates \in [1..Len(uRoot) -> GitReads] :
        uRoot' = [i \in 1..Len(uRoot) |-> UnifiedFullUrl(uRoot[i], uTree, dates[i])]
    /\ uMode' = "full"
    /\ uPc' = "save"
    /\ UNCHANGED <<uGit, uFile, uTree, uStructural, uExit>>
    /\ UNCHANGED UnifiedOthers

\* main: update_timestamps_only otherwise
UnifiedUpdateTimestampsOnly ==
    /\ uPc = "update" /\ ~uStructural
    /\ uRoot' = [i \in 1..Len(uRoot) |-> UnifiedTimestampUrl(uRoot[i])]
    /\ uMode' = "timestamps"
    /\ uPc' = "save"
    /\ UNCHANGED <<uGit, uFile, uTree, uStructural, uExit>>
    /\ UNCHANGED UnifiedOthers

\* main: tree.write(sitemap_path); an exception there is not caught
UnifiedSave ==
    /\ uPc = "save"
    /\ \E io \in {"ok", "open fails"} :
        IF io = "ok"
        THEN uFile' = [state |-> "ok", urls |-> uRoot] /\ uExit' = 0
        ELSE uFile' = uFile /\ uExit' = 1
    /\ uPc' = "done"
    /\ UNCHANGED <<uGit, uTree, uStructural, uRoot, uMode>>
    /\ UNCHANGED UnifiedOthers

NextUnified ==
    \/ UnifiedCheck \/ UnifiedParse \/ UnifiedUpdateFull
    \/ UnifiedUpdateTimestampsOnly \/ UnifiedSave

SpecUnified == InitUnified /\ [][NextUnified]_vars

\* a git query of has_structural_changes failed
UnifiedUndetermined ==
    uGit.log = "fail" \/ (uGit.log = "commit" /\ uGit.diff = "fail")

\* the <url> entries are the same in number and order, and nothing but the
\* text of a lastmod element that was there differs
OnlyLastmodTextChanged(old, new) ==
    /\ Len(new) = Len(old)
    /\ \A i \in 1..Len(old) :
        /\ new[i].loc = old[i].loc
        /\ new[i].changefreq = old[i].changefreq
        /\ new[i].priority = old[i].priority
        /\ (new[i].lastmod = NoLastmod) = (old[i].lastmod = NoLastmod)

C5_UndeterminedRegeneratesFully ==
    (uMode # "none" /\ UnifiedUndetermined) => uMode = "full"

\* ------------------------------------------- classifiers: first rule wins
\* the config a classifier works with: universal_sitemap_generator.py lays
\* the user's config over its defaults
ClsEffectiveConfig ==
    IF cScript = "universal_sitemap_generator" THEN UniLoadConfig(cConfig) ELSE cConfig

\* the rules, other than `default`, whose keyword occurs in the lower-cased
\* project-relative path
MatchingRules(rules, path) ==
    {i \in 1..Len(rules) : rules[i].k # "default" /\ Contains(Lower(path), rules[i].k)}

HasDefaultRule(rules) == \E i \in 1..Len(rules) : rules[i].k = "default"

\* the value of the first matching rule is the result, and the value of the
\* `default` rule when none matches
FirstRuleWins(rules, path, result) ==
    LET hits == MatchingRules(rules, path)
    IN  /\ hits # {} => result = rules[FirstRule(rules, hits)].v
        /\ (hits = {} /\ HasDefaultRule(rules)) =>
                \E i \in 1..Len(rules) : rules[i].k = "default" /\ result = rules[i].v

\* C11: for a path that is not a root index file, the configurable
\* classifiers return the value of the first rule, in configured order, whose
\* keyword is a substring of the lower-cased project-relative path, and the
\* value of the `default` rule when no keyword matches; for the priority and
\* for the changefreq.
C11_FirstMatchingRule ==
    (cPc = "done" /\ cScript # "generate_sitemaps" /\ ~IsRootIndex(cPath)) =>
        /\ FirstRuleWins(CfgGet(ClsEffectiveConfig, "priority_rules", << >>), cPath,
                         cResult.priority)
        /\ FirstRuleWins(CfgGet(ClsEffectiveConfig, "changefreq_rules", << >>), cPath,
                         cResult.changefreq)

\* ------------------------------------------------------ the URL mappers
\* universal_sitemap_generator.py convert_path_to_url, for a file inside the
\* project: rel_path is file_path.relative_to(self.project_path)
UniConvertPathToUrl(base_url, rel_path) ==
    LET p0 == ReplaceAll(rel_path, "\\", "/")
        p1 == IF p0 = "index.html" THEN ""
              ELSE IF EndsWith(p0, "/index.html") THEN SubSeq(p0, 1, Len(p0) - 11)
              ELSE IF EndsWith(p0, ".md") THEN SubSeq(p0, 1, Len(p0) - 3) \o ".html"
              ELSE IF EndsWith(p0, ".markdown") THEN SubSeq(p0, 1, Len(p0) - 9) \o ".html"
              ELSE p0
        p2 == IF p1 # "" /\ ~StartsWith(p1, "/") THEN "/" \o p1
              ELSE IF p1 = "" THEN "/" ELSE p1
    IN  UrlJoin(base_url, p2)

\* generate_sitemaps.py
BASE_URL == "https://sednabcn.github.io"

\* create_url_element: page_url
MultiPageUrl(file_path) ==
    ReplaceAll(ReplaceAll(BASE_URL \o "/" \o file_path, "//", "/"), ":/", "://")

\* the mapper of a script; both generators keep base_url.rstrip('/')
ConvertPathToUrl(script, base_url, path) ==
    CASE script = "generate_sitemap" -> GenConvertPathToUrl(RStripSlash(base_url), << >>, path)
      [] script = "universal_sitemap_generator" -> UniConvertPathToUrl(RStripSlash(base_url), path)
      [] script = "generate_sitemaps" -> MultiPageUrl(path)

\* the part of a URL after the base URL and its slash
UrlRelative(base_url, url) == DropFirst(url, Len(RStripSlash(base_url)) + 1)

UrlBases == {"https://x.io", "https://x.io/", "https://u.io/repo", "https://u.io/repo/"}

UrlPaths == {"index.html", "about.html", "blog/index.html", "blog/post1.md", "README.md",
             "index.md", "docs/index.htm", "notes.markdown"}

InitUrl ==
    /\ mPc = "ready"
    /\ mScript \in {"generate_sitemap", "universal_sitemap_generator", "generate_sitemaps"}
    /\ mBaseUrl \in IF mScript = "generate_sitemaps" THEN {BASE_URL} ELSE UrlBases
    /\ mPath \in UrlPaths
    /\ mUrl = ""
    /\ mAgain = ""
    /\ UrlAlone

\* generate_sitemap.py scan_directory: url = self.convert_path_to_url(relative_path)
UrlMapGen ==
    /\ mPc = "ready" /\ mScript = "generate_sitemap"
    /\ mUrl' = ConvertPathToUrl(mScript, mBaseUrl, mPath)
    /\ mPc' = "mapped"
    /\ UNCHANGED <<mScript, mBaseUrl, mPath, mAgain>>
    /\ UNCHANGED UrlOthers

\* universal_sitemap_generator.py generate_sitemap_data: url = self.convert_path_to_url(file_path)
UrlMapUni ==
    /\ mPc = "ready" /\ mScript = "universal_sitemap_generator"
    /\ mUrl' = ConvertPathToUrl(mScript, mBaseUrl, mPath)
    /\ mPc' = "mapped"
    /\ UNCHANGED <<mScript, mBaseUrl, mPath, mAgain>>
    /\ UNCHANGED UrlOthers

\* generate_sitemaps.py create_url_element: loc.text = page_url
UrlMapMulti ==
    /\ mPc = "ready" /\ mScript = "generate_sitemaps"
    /\ mUrl' = ConvertPathToUrl(mScript, mBaseUrl, mPath)
    /\ mPc' = "mapped"
    /\ UNCHANGED <<mScript, mBaseUrl, mPath, mAgain>>
    /\ UNCHANGED UrlOthers

\* the mapper applied to the relative part of a URL it returned under the base
UrlMapAgain ==
    /\ mPc = "mapped"
    /\ StartsWith(mUrl, RStripSlash(mBaseUrl) \o "/")
    /\ mAgain' = ConvertPathToUrl(mScript, mBaseUrl, UrlRelative(mBaseUrl, mUrl))
    /\ mPc' = "remapped"
    /\ UNCHANGED <<mScript, mBaseUrl, mPath, mUrl>>
    /\ UNCHANGED UrlOthers

NextUrl == UrlMapGen \/ UrlMapUni \/ UrlMapMulti \/ UrlMapAgain

SpecUrl == InitUrl /\ [][NextUrl]_vars

\* C12: the URL of a path is the base URL (without a trailing slash), then
\* exactly one "/", then the mapped path: the base URL, path component
\* included, is a prefix and no second slash follows it.
C12_BaseUrlIsPrefix ==
    mPc # "ready" =>
        /\ StartsWith(mUrl, RStripSlash(mBaseUrl) \o "/")
        /\ ~StartsWith(mUrl, RStripSlash(mBaseUrl) \o "//")

\* C13: mapping the relative part of a mapper's own output again gives the
\* same URL.
C13_ToUrlIdempotent ==
    (mPc = "remapped" /\ mScript # "generate_sitemaps") => mAgain = mUrl

\* ---------------------------------------------------------- the emitters
\* validate_sitemap: the protocol's limit of URLs in one sitemap
UrlLimit == 50000

\* create_sitemap_xml: one <url> element; every child is written
UniUrlElement(entry) ==
    [loc |-> entry.loc,
     lastmod |-> entry.lastmod,
     changefreq |-> entry.changefreq,
     priority |-> Format1fTenths(entry.priority)]

\* create_sitemap_xml: the <url> elements, in the order of the entries
UniCreateSitemapXml(entries) == [i \in 1..Len(entries) |-> UniUrlElement(entries[i])]

\* validate_sitemap: the warnings for a sitemap of url_count URLs
UniValidateWarnings(url_count) ==
    (IF url_count > UrlLimit THEN {"Sitemap has more than 50,000 URLs (consider splitting)"} ELSE {})
    \cup (IF url_count = 0 THEN {"Sitemap contains no URLs"} ELSE {})

\* reading a sitemap back: the text of loc, priority and changefreq of every
\* <url>; float("0.8") is 0.8
ParsedTriples(urls) ==
    [i \in 1..Len(urls) |->
        [loc |-> urls[i].loc,
         priority |-> IF urls[i].priority = NoPriority THEN NoPriority ELSE urls[i].priority * 10,
         changefreq |-> urls[i].changefreq]]

EmitLocs == {"https://x.io/", "https://x.io/about.html"}

EmitPriorities == {0, 50, 85, 100}

EmitChangefreqs == {"weekly", ""}

EmitEntries == [loc : EmitLocs, lastmod : {0}, changefreq : EmitChangefreqs, priority : EmitPriorities]

EmitNoFile == [state |-> "none", urls |-> << >>, more |-> 0]

EmitOldFile == [state |-> "old", urls |-> << >>, more |-> 0]

InitEmit ==
    /\ ePc = "ready"
    /\ eScript \in {"generate_sitemap", "universal_sitemap_generator"}
    /\ eEntries \in UNION {[1..n -> EmitEntries] : n \in 0..MaxEntries}
    /\ eMore \in {0, UrlLimit}
    /\ eFile \in {EmitNoFile, EmitOldFile}
    /\ eWarnings = {}
    /\ eParsed = << >>
    /\ eExit = Running
    /\ EmitAlone

\* generate_sitemap.py write_sitemap and the end of main: no URLs or an
\* IOError exit 1; nothing is said about the number of URLs
EmitGen ==
    /\ ePc = "ready" /\ eScript = "generate_sitemap"
    /\ ePc' = "exit"
    /\ IF eEntries = << >> /\ eMore = 0
       THEN eExit' = 1 /\ eFile' = eFile
       ELSE \E io \in {"ok", "open fails", "write fails"} :
            CASE io = "ok" ->
                    /\ eFile' = [state |-> "written", urls |-> GenGenerateXml(eEntries), more |-> eMore]
                    /\ eExit' = 0
              [] io = "open fails" -> eFile' = eFile /\ eExit' = 1
              [] io = "write fails" ->
                    /\ eFile' = [state |-> "truncated", urls |-> << >>, more |-> 0]
                    /\ eExit' = 1
    /\ UNCHANGED <<eScript, eEntries, eMore, eWarnings, eParsed>>
    /\ UNCHANGED EmitOthers

\* universal_sitemap_generator.py generate: no entries, or an exception of
\* create_sitemap_xml, return False (exit 1)
EmitUni ==
    /\ ePc = "ready" /\ eScript = "universal_sitemap_generator"
    /\ IF eEntries = << >> /\ eMore = 0
       THEN eExit' = 1 /\ eFile' = eFile /\ ePc' = "exit"
       ELSE \E io \in {"ok", "open fails", "write fails"} :
            CASE io = "ok" ->
                    /\ eFile' = [state |-> "written", urls |-> UniCreateSitemapXml(eEntries),
                                 more |-> eMore]
                    /\ eExit' = eExit /\ ePc' = "validate"
              [] io = "open fails" -> eFile' = eFile /\ eExit' = 1 /\ ePc' = "exit"
              [] io = "write fails" ->
                    /\ eFile' = [state |-> "truncated", urls |-> << >>, more |-> 0]
                    /\ eExit' = 1 /\ ePc' = "exit"
    /\ UNCHANGED <<eScript, eEntries, eMore, eWarnings, eParsed>>
    /\ UNCHANGED EmitOthers

\* universal_sitemap_generator.py validate_sitemap and the end of generate
EmitValidate ==
    /\ ePc = "validate"
    /\ eWarnings' = UniValidateWarnings(Len(eFile.urls) + eFile.more)
    /\ eExit' = 0
    /\ ePc' = "exit"
    /\ UNCHANGED <<eScript, eEntries, eMore, eFile, eParsed>>
    /\ UNCHANGED EmitOthers

\* the written sitemap is parsed again
EmitReparse ==
    /\ ePc = "exit" /\ eFile.state = "written"
    /\ eParsed' = ParsedTriples(eFile.urls)
    /\ ePc' = "parsed"
    /\ UNCHANGED <<eScript, eEntries, eMore, eFile, eWarnings, eExit>>
    /\ UNCHANGED EmitOthers

NextEmit == EmitGen \/ EmitUni \/ EmitValidate \/ EmitReparse

SpecEmit == InitEmit /\ [][NextEmit]_vars

\* the (url, priority, changefreq) triples of a list of entries
TriplesOf(entries) ==
    [i \in 1..Len(entries) |->
        [loc |-> entries[i].loc, priority |-> entries[i].priority,
         changefreq |-> entries[i].changefreq]]

Occurrences(q, x) == Cardinality({i \in 1..Len(q) : q[i] = x})

SameMultiset(p, q) ==
    /\ Len(p) = Len(q)
    /\ \A i \in 1..Len(p) : Occurrences(p, p[i]) = Occurrences(q, p[i])

\* priorities of one decimal place within [0.0, 1.0], and a changefreq
OneDecimalAndChangefreq(entries) ==
    \A i \in 1..Len(entries) :
        /\ entries[i].priority \in {10 * t : t \in 0..10}
        /\ entries[i].changefreq # ""

\* C14 as stated: the triples read back from the written sitemap are the
\* multiset of triples of the entries, for every priority in [0.0, 1.0] and
\* every changefreq.
C14_RoundTripAnyPriority ==
    ePc = "parsed" => SameMultiset(TriplesOf(eEntries), eParsed)

\* C14: the triples read back from the written sitemap are the multiset of
\* triples of the entries when every priority has one decimal place within
\* [0.0, 1.0] and every changefreq is not empty.
C14_RoundTripOneDecimal ==
    (ePc = "parsed" /\ OneDecimalAndChangefreq(eEntries)) =>
        SameMultiset(TriplesOf(eEntries), eParsed)

\* two different entries, one of priority 0.0, were written and read back
C14_Witness ==
    /\ ePc = "parsed" /\ OneDecimalAndChangefreq(eEntries)
    /\ Len(eEntries) = 2 /\ eEntries[1] # eEntries[2]
    /\ eEntries[1].priority = 0 /\ eEntries[2].priority = 100
    /\ eScript = "generate_sitemap"
    /\ SameMultiset(TriplesOf(eEntries), eParsed)

\* C15: a sitemap of more URLs than the protocol's limit is not written
\* without a warning, and a written sitemap holds every entry.
C15_OverLimitWarnsAndKeepsAll ==
    eFile.state = "written" /\ ePc \in {"exit", "parsed"} =>
        /\ Len(eFile.urls) + eFile.more = Len(eEntries) + eMore
        /\ Len(eEntries) + eMore > UrlLimit => eWarnings # {}

\* ---------------------------------------------------------- the scanners
\* SitemapGenerator.__init__ of universal_sitemap_generator.py: the patterns
\* and extensions of the loaded config, which always holds both keys
UniExcludePatterns(user_config) == UniLoadConfig(user_config)["exclude_patterns"]

UniFileExtensions(user_config) == UniLoadConfig(user_config)["file_extensions"]

\* pathlib's suffix of a path
PathSuffix(path) == DropFirst(Basename(path), Len(SplitExtRoot(Basename(path))))

\* universal_sitemap_generator.py should_include_file, on the absolute path;
\* re.IGNORECASE
UniShouldIncludeFile(user_config, file_str) ==
    LET exclude_patterns == UniExcludePatterns(user_config)
        include_patterns == CfgGet(UniLoadConfig(user_config), "include_patterns", << >>)
        file_extensions == UniFileExtensions(user_config)
    IN  IF \E i \in 1..Len(exclude_patterns) : ReMatch(Lower(exclude_patterns[i]), Lower(file_str))
        THEN FALSE
        ELSE IF include_patterns # << >>
        THEN \E i \in 1..Len(include_patterns) : ReMatch(Lower(include_patterns[i]), Lower(file_str))
        ELSE \E i \in 1..Len(file_extensions) :
                Lower(PathSuffix(file_str)) = Lower(file_extensions[i])

\* universal_sitemap_generator.py scan_files: found_files, relative to root
UniScanFiles(user_config, root, tree) ==
    {f \in tree : UniShouldIncludeFile(user_config, root \o "/" \o f)}

ScanTreeFiles == {"index.html", ".git/x.html", "node_modules/x.html", "venv/x.html", "docs/a.md"}

\* no config, a config without exclude patterns, a config with its own
ScanConfigs ==
    {<< >>, [exclude_patterns |-> << >>], [exclude_patterns |-> <<"drafts/.*">>]}

InitScan ==
    /\ sPc = "ready"
    /\ sScript \in {"generate_sitemap", "update_sitemap_if_needed_today",
                    "universal_sitemap_generator"}
    /\ sConfig \in ScanConfigs
    /\ sRoot \in ClsRoots
    /\ sTree \in SUBSET ScanTreeFiles
    /\ sYielded = {}
    /\ ScanAlone

\* generate_sitemap.py scan_directory
ScanGen ==
    /\ sPc = "ready" /\ sScript = "generate_sitemap"
    /\ sYielded' = GenScanned(sConfig, sTree)
    /\ sPc' = "done"
    /\ UNCHANGED <<sScript, sConfig, sRoot, sTree>>
    /\ UNCHANGED ScanOthers

\* update_sitemap_if_needed_today.py find_content_files
ScanToday ==
    /\ sPc = "ready" /\ sScript = "update_sitemap_if_needed_today"
    /\ sYielded' = TodayFindContentFiles(sConfig, sTree)
    /\ sPc' = "done"
    /\ UNCHANGED <<sScript, sConfig, sRoot, sTree>>
    /\ UNCHANGED ScanOthers

\* universal_sitemap_generator.py scan_files
ScanUni ==
    /\ sPc = "ready" /\ sScript = "universal_sitemap_generator"
    /\ sYielded' = UniScanFiles(sConfig, sRoot, sTree)
    /\ sPc' = "done"
    /\ UNCHANGED <<sScript, sConfig, sRoot, sTree>>
    /\ UNCHANGED ScanOthers

NextScan == ScanGen \/ ScanToday \/ ScanUni

SpecScan == InitScan /\ [][NextScan]_vars

\* the path lies under a version-control, dependency or virtual-env directory
UnderSkippedDir(path) ==
    \E i \in 1..Len(DirComponents(path)) :
        DirComponents(path)[i] \in {".git", "node_modules", "venv", ".venv"}

\* C16: no scanner yields a file under a .git, node_modules or virtual-env
\* directory, whatever the user's configuration.
C16_SkippedDirsNeverYielded ==
    sPc = "done" => \A f \in sYielded : ~UnderSkippedDir(f)

\* ------------------------------------------------ the output file of a run
\* C17: after a run of generate_sitemap.py the output path holds a complete
\* new sitemap and the exit code is 0, or the exit code is not 0 and the
\* output path holds what it held before; it never holds a truncated file.
C17_WrittenOrUntouched ==
    gPc = "exit" =>
        \/ gExit = 0 /\ gOutFile.state = "written"
        \/ gExit # 0 /\ gOutFile \in {NoFile, OldFile}

\* ------------------------------ universal_sitemap_generator.py: one run
UniRunBaseUrl == "https://x.io"

UniRunTreeFiles == {"index.html", "about.html", "venv/x.html", "blog/post1.md"}

UniRunUserConfigs == {<< >>, [exclude_patterns |-> <<".*about.*">>]}

UniRunNoFile == [state |-> "none", locs |-> {}, entries |-> {}]

UniRunOldFile == [state |-> "old", locs |-> {}, entries |-> {}]

\* generate_sitemap_data: the loc and priority of the entry of every found
\* file (no two files of the tree have the same URL)
UniRunEntries(config, root, found) ==
    {[loc |-> ConvertPathToUrl("universal_sitemap_generator", UniRunBaseUrl, f),
      priority |-> UniGetFilePriority(config, UniAbsolute(root, f))] : f \in found}

InitUniRun ==
    /\ vPc = "start"
    /\ vConfigFile \in {"none", "ok", "missing", "malformed"}
    /\ vUserConfig \in IF vConfigFile = "ok" THEN UniRunUserConfigs ELSE {<< >>}
    /\ vConfig = << >>
    /\ vRoot \in ClsRoots
    /\ vTree \in SUBSET UniRunTreeFiles
    /\ vScanned = FALSE
    /\ vFound = {}
    /\ vOutFile \in {UniRunNoFile, UniRunOldFile}
    /\ vExit = Running
    /\ UniRunAlone

\* SitemapGenerator.__init__ and load_config: a config file that does not
\* exist is passed over, one that cannot be loaded prints a warning; the
\* defaults are used and the run goes on
UniRunLoadConfig ==
    /\ vPc = "start"
    /\ vConfig' = IF vConfigFile = "ok" THEN UniLoadConfig(vUserConfig) ELSE UniDefaultConfig
    /\ vPc' = "scan"
    /\ UNCHANGED <<vConfigFile, vUserConfig, vRoot, vTree, vScanned, vFound, vOutFile, vExit>>
    /\ UNCHANGED UniRunOthers

\* generate_sitemap_data: scan_files
UniRunScan ==
    /\ vPc = "scan"
    /\ vFound' = UniScanFiles(IF vConfigFile = "ok" THEN vUserConfig ELSE << >>, vRoot, vTree)
    /\ vScanned' = TRUE
    /\ vPc' = "write"
    /\ UNCHANGED <<vConfigFile, vUserConfig, vConfig, vRoot, vTree, vOutFile, vExit>>
    /\ UNCHANGED UniRunOthers

\* generate: no entries return False; create_sitemap_xml writes the file at
\* the output path, an exception returns False; validate_sitemap
UniRunWrite ==
    /\ vPc = "write"
    /\ vPc' = "exit"
    /\ IF vFound = {}
       THEN vExit' = 1 /\ vOutFile' = vOutFile
       ELSE \E io \in {"ok", "open fails", "write fails"} :
            CASE io = "ok" ->
                    /\ vOutFile' = [state |-> "written",
                                    locs |-> {ConvertPathToUrl("universal_sitemap_generator",
                                                               UniRunBaseUrl, f) : f \in vFound},
                                    entries |-> UniRunEntries(vConfig, vRoot, vFound)]
                    /\ vExit' = 0
              [] io = "open fails" -> vOutFile' = vOutFile /\ vExit' = 1
              [] io = "write fails" ->
                    /\ vOutFile' = [state |-> "truncated", locs |-> {}, entries |-> {}]
                    /\ vExit' = 1
    /\ UNCHANGED <<vConfigFile, vUserConfig, vConfig, vRoot, vTree, vScanned, vFound>>
    /\ UNCHANGED UniRunOthers

NextUniRun == UniRunLoadConfig \/ UniRunScan \/ UniRunWrite

SpecUniRun == InitUniRun /\ [][NextUniRun]_vars

\* C18: with a missing or malformed configuration file the run scans no
\* content file, leaves the sitemap file as it was and exits non-zero.
C18_BadConfigIsFatal ==
    vConfigFile \in {"missing", "malformed"} =>
        /\ ~vScanned
        /\ vOutFile \in {UniRunNoFile, UniRunOldFile}
        /\ vPc = "exit" => vExit # 0

\* C20: after a run that found a structural change and wrote the sitemap,
\* the locs of the sitemap are the URLs of the content files of the tree.
C20_FullUpdateMatchesTree ==
    (uPc = "done" /\ uMode = "full" /\ uExit = 0) =>
        {uFile.urls[i].loc : i \in 1..Len(uFile.urls)}
            = GenLocs(RStripSlash(UnifiedSite), << >>, uTree)

\* C21: for the tree {index.html, about.html, blog/post1.md}, base URL
\* https://x.io and no user config, the written sitemap has the three
\* entries / (1.0), /about.html (0.8) and /blog/post1.html (0.5), whatever
\* the project directory.
C21_ScenarioThreeEntries ==
    (vPc = "exit" /\ vExit = 0 /\ vConfigFile = "none"
        /\ vTree = {"index.html", "about.html", "blog/post1.md"}) =>
        vOutFile.entries =
            {[loc |-> "https://x.io/", priority |-> 100],
             [loc |-> "https://x.io/about.html", priority |-> 80],
             [loc |-> "https://x.io/blog/post1.html", priority |-> 50]}

\* ----------------------------------------- update_sitemap_if_needed.py
\* BASE_URL = args.base_url.rstrip("/")
CrawlBaseUrl == "https://x.io"

CrawlPages == {"https://x.io", "https://x.io/a", "https://x.io/a/b"}

\* the absolute URLs (urljoin, urldefrag) the links of the pages lead to
CrawlUrls == CrawlPages \cup {"https://y.io/"}

\* a page links to up to two URLs
CrawlLinkSets == {L \in SUBSET CrawlUrls : Cardinality(L) <= 2}

\* no sitemap, one that does not parse, or one with locs and lastmods
CrawlSitemaps ==
    {[state |-> "none", urls |-> {}, today |-> FALSE],
     [state |-> "invalid", urls |-> {}, today |-> FALSE]}
    \cup {[state |-> "ok", urls |-> U, today |-> d] :
            U \in {{"https://x.io"}, CrawlPages}, d \in BOOLEAN}

\* generate_sitemap, the links of a fetched page that are queued
CrawlQueuedAnyHost(url, links, visited) == {l \in links[url] : l \notin visited}

CrawlQueued(url, links, visited) ==
    {l \in links[url] : StartsWith(l, CrawlBaseUrl) /\ l \notin visited}

InitCrawl ==
    /\ kPc = "start"
    /\ kLinks \in {f \in [CrawlUrls -> CrawlLinkSets] : f["https://y.io/"] = {"https://y.io/"}}
    /\ kFails \in SUBSET CrawlPages
    /\ kFile \in CrawlSitemaps
    /\ kExisting = {}
    /\ kNeeds = FALSE
    /\ kVisited = {}
    /\ kToVisit = {}
    /\ kFetches = [u \in CrawlUrls |-> 0]
    /\ kWrites = 0
    /\ kChanged = ""
    /\ kExit = Running
    /\ CrawlAlone

\* read_existing_urls and the lastmod check of the main block; the call of
\* generate_sitemap starts with urls_to_visit = {BASE_URL}
CrawlCheck ==
    /\ kPc = "start"
    /\ kExisting' = IF kFile.state = "ok" THEN kFile.urls ELSE {}
    /\ kNeeds' = ~(kFile.state = "ok" /\ kFile.today)
    /\ kToVisit' = {CrawlBaseUrl}
    /\ kPc' = "crawl"
    /\ UNCHANGED <<kLinks, kFails, kFile, kVisited, kFetches, kWrites, kChanged, kExit>>
    /\ UNCHANGED CrawlOthers

\* one iteration of the while loop of generate_sitemap
CrawlVisit ==
    /\ kPc = "crawl"
    /\ \E url \in kToVisit :
        IF url \in kVisited
        THEN /\ kToVisit' = kToVisit \ {url}
             /\ UNCHANGED <<kVisited, kFetches>>
        ELSE /\ kVisited' = kVisited \cup {url}
             /\ kFetches' = [kFetches EXCEPT ![url] = @ + 1]
             /\ kToVisit' =
                    IF url \in kFails THEN kToVisit \ {url}
                    ELSE (kToVisit \ {url}) \cup CrawlQueued(url, kLinks, kVisited')
    /\ UNCHANGED <<kPc, kLinks, kFails, kFile, kExisting, kNeeds, kWrites, kChanged, kExit>>
    /\ UNCHANGED CrawlOthers

\* the end of generate_sitemap: SITEMAP_FILE is opened for writing and
\* written; an exception there ends the script
CrawlWrite ==
    /\ kPc = "crawl" /\ kToVisit = {}
    /\ \E io \in {"ok", "open fails", "write fails"} :
        CASE io = "ok" ->
                /\ kFile' = [state |-> "ok", urls |-> kVisited, today |-> TRUE]
                /\ kWrites' = kWrites + 1
                /\ kPc' = "report" /\ kExit' = kExit
          [] io = "open fails" ->
                /\ kFile' = kFile /\ kWrites' = kWrites
                /\ kPc' = "done" /\ kExit' = 1
          [] io = "write fails" ->
                /\ kFile' = [state |-> "invalid", urls |-> {}, today |-> FALSE]
                /\ kWrites' = kWrites + 1
                /\ kPc' = "done" /\ kExit' = 1
    /\ UNCHANGED <<kLinks, kFails, kExisting, kNeeds, kVisited, kToVisit, kFetches, kChanged>>
    /\ UNCHANGED CrawlOthers

\* the main block after generate_sitemap: the URL comparison and the
\* changed= line
CrawlReport ==
    /\ kPc = "report"
    /\ kNeeds' = (kNeeds \/ kVisited # kExisting)
    /\ kChanged' = IF kNeeds' THEN "true" ELSE "false"
    /\ kExit' = 0
    /\ kPc' = "done"
    /\ UNCHANGED <<kLinks, kFails, kFile, kExisting, kVisited, kToVisit, kFetches, kWrites>>
    /\ UNCHANGED CrawlOthers

NextCrawl == CrawlCheck \/ CrawlVisit \/ CrawlWrite \/ CrawlReport

SpecCrawl == InitCrawl /\ [][NextCrawl]_vars

\* every fetch returns and the script goes on
SpecCrawlFair == SpecCrawl /\ WF_vars(NextCrawl)

\* C22: a run that reports changed=false has not written the sitemap file.
C22_UnchangedIsNotRewritten ==
    (kPc = "done" /\ kChanged = "false") => kWrites = 0

\* the URLs reachable from BASE_URL through links of pages whose fetch
\* succeeds, among the URLs that start with BASE_URL
RECURSIVE CrawlReach(_, _, _)
CrawlReach(links, fails, S) ==
    LET more == S \cup UNION {{l \in links[u] : StartsWith(l, CrawlBaseUrl)} :
                                u \in {x \in S : x \notin fails}}
    IN  IF more = S THEN S ELSE CrawlReach(links, fails, more)

\* C27: the crawl loop ends; no URL is fetched twice; and when the loop has
\* ended, visited is the set of URLs reachable from BASE_URL through links of
\* fetched pages that start with BASE_URL, failed fetches included.
C27_CrawlTerminatesWithReachable ==
    /\ [](\A u \in CrawlUrls : kFetches[u] <= 1)
    /\ []((kPc \in {"report", "done"}) => kVisited = CrawlReach(kLinks, kFails, {CrawlBaseUrl}))
    /\ <>(kPc = "done")

\* a crawl ended with three URLs visited, one of them a page that could
\* not be fetched, on a site that links to another host
C27_Witness ==
    /\ kPc = "done" /\ kExit = 0
    /\ Cardinality(kVisited) = 3
    /\ kFails \cap kVisited # {}
    /\ \E u \in kVisited \ kFails : "https://y.io/" \in kLinks[u]

\* ------------------------------------- the metadata of one content file
MetaPaths == {"index.html", "about.html", "blog/post1.md"}

InitMeta ==
    /\ xPc = "ready"
    /\ xScript \in {"generate_sitemap", "update_sitemap_if_needed_today"}
    /\ xPath \in MetaPaths
    /\ xRead \in PathReads
    /\ xSitemapMtime \in Secs
    /\ xUrls = << >>
    /\ xNewer = {}
    /\ MetaAlone

\* generate_sitemap.py scan_directory, the body of the loop for one file
MetaGen ==
    /\ xPc = "ready" /\ xScript = "generate_sitemap"
    /\ xUrls' = Append(xUrls, GenEntry("https://x.io", << >>, xPath, xRead.git,
                                        IF xRead.fs = NotRead THEN OSErr ELSE xRead.fs))
    /\ xPc' = "done"
    /\ UNCHANGED <<xScript, xPath, xRead, xSitemapMtime, xNewer>>
    /\ UNCHANGED MetaOthers

\* update_sitemap_if_needed_today.py should_regenerate_sitemap, the body of
\* the loop for one file
MetaToday ==
    /\ xPc = "ready" /\ xScript = "update_sitemap_if_needed_today"
    /\ xNewer' = IF /\ TodayTimestamp(xRead.git, xRead.fs) # OSErr
                    /\ TodayIsNewer(TodayTimestamp(xRead.git, xRead.fs), xSitemapMtime)
                 THEN xNewer \cup {xPath} ELSE xNewer
    /\ xPc' = "done"
    /\ UNCHANGED <<xScript, xPath, xRead, xSitemapMtime, xUrls>>
    /\ UNCHANGED MetaOthers

NextMeta == MetaGen \/ MetaToday

SpecMeta == InitMeta /\ [][NextMeta]_vars

\* neither git nor the filesystem gives a time for the file
MetaUnreadable == xRead.git = NoHistory /\ xRead.fs = OSErr

\* C23: a content file whose metadata cannot be read produces no sitemap
\* entry and is not counted as newer than the sitemap.
C23_UnreadableFileIsSkipped ==
    (xPc = "done" /\ MetaUnreadable) => (xUrls = << >> /\ xNewer = {})

\* ------------------------------------ the timestamps of the staleness check
\* C24: the time the staleness check uses for sitemap.xml and for every
\* content file is the path's last commit time when git has one, and the
\* whole seconds of its filesystem mtime only when git has none.
C24_VcsTimeThenFsTime ==
    (tPc \in {"scan", "decided", "exit"} /\ tSitemapMtime # NotRead) =>
        /\ tSitemapMtime =
              IF tSitemapRead.git # NoHistory THEN tSitemapRead.git
              ELSE WholeSeconds(tSitemapRead.fs)
        /\ \A f \in DOMAIN tFileRead :
              LET r == tFileRead[f]
              IN  f \in tNewer <=>
                     \/ r.git # NoHistory /\ r.git > tSitemapMtime
                     \/ r.git = NoHistory /\ r.fs # OSErr /\ WholeSeconds(r.fs) > tSitemapMtime

\* the sitemap's time came from git, one file is newer by its commit time
\* and one is newer by its mtime, git having no history for it
C24_Witness ==
    /\ tPc = "decided" /\ tSitemapMtime # NotRead
    /\ tSitemapRead.git # NoHistory
    /\ \E f, g \in tNewer :
        /\ tFileRead[f].git # NoHistory
        /\ tFileRead[g].git = NoHistory

\* ----------------------------------------- sitemap_check_and_submit.py
\* what subprocess.run does with a command: it exits 0 with an output, it
\* exits non-zero (CalledProcessError), or it cannot be started (OSError)
CommandResults ==
    {[kind |-> "ok", output |-> o] :
        o \in {"Status: OK", "Status: Not fetched", "Sitemap not found", ""}}
    \cup {[kind |-> "nonzero", output |-> ""], [kind |-> "cannot start", output |-> ""]}

InitSubmit ==
    /\ hPc = "start"
    /\ hEnv \in [setup : {"ok", "no site", "no script"},
                 list : {r \in CommandResults : r.output = ""},
                 check : CommandResults,
                 submit : {r \in CommandResults : r.output = ""}]
    /\ hNeeds = FALSE
    /\ hWarnings = << >>
    /\ hSubmits = 0
    /\ hExit = Running
    /\ SubmitAlone

\* main: the site URL and the path of submit_status_sitemap.py
SubmitSetup ==
    /\ hPc = "start"
    /\ IF hEnv.setup = "ok"
       THEN hPc' = "list" /\ hExit' = hExit
       ELSE hPc' = "done" /\ hExit' = 1
    /\ UNCHANGED <<hEnv, hNeeds, hWarnings, hSubmits>>
    /\ UNCHANGED SubmitOthers

\* step 1: run_command ends the script with sys.exit(1) when the command
\* exits non-zero; SystemExit is no Exception, so the handler of main is
\* passed over; an OSError is caught there
SubmitList ==
    /\ hPc = "list"
    /\ CASE hEnv.list.kind = "ok" -> hPc' = "check" /\ hExit' = hExit /\ hWarnings' = hWarnings
         [] hEnv.list.kind = "nonzero" -> hPc' = "done" /\ hExit' = 1 /\ hWarnings' = hWarnings
         [] hEnv.list.kind = "cannot start" ->
                /\ hPc' = "check" /\ hExit' = hExit
                /\ hWarnings' = Append(hWarnings, "Failed to list sitemaps")
    /\ UNCHANGED <<hEnv, hNeeds, hSubmits>>
    /\ UNCHANGED SubmitOthers

\* step 2: the status check and needs_submit
SubmitCheck ==
    /\ hPc = "check"
    /\ CASE hEnv.check.kind = "ok" ->
                /\ hNeeds' = ~Contains(hEnv.check.output, "Status: OK")
                /\ hWarnings' =
                      IF Contains(hEnv.check.output, "Status: OK") THEN hWarnings
                      ELSE IF Contains(hEnv.check.output, "Not fetched")
                              \/ Contains(hEnv.check.output, "Error")
                      THEN Append(hWarnings, "needs submission - status issues detected")
                      ELSE IF Contains(hEnv.check.output, "Sitemap not found")
                      THEN Append(hWarnings, "not found in Search Console")
                      ELSE hWarnings
                /\ hPc' = "submit" /\ hExit' = hExit
         [] hEnv.check.kind = "nonzero" ->
                /\ hPc' = "done" /\ hExit' = 1
                /\ UNCHANGED <<hNeeds, hWarnings>>
         [] hEnv.check.kind = "cannot start" ->
                /\ hNeeds' = TRUE
                /\ hWarnings' = Append(hWarnings, "Failed to check sitemap status")
                /\ hPc' = "submit" /\ hExit' = hExit
    /\ UNCHANGED <<hEnv, hSubmits>>
    /\ UNCHANGED SubmitOthers

\* step 3: the submit command if needs_submit; its OSError is not caught
SubmitSend ==
    /\ hPc = "submit"
    /\ IF hNeeds
       THEN /\ hSubmits' = IF hEnv.submit.kind = "cannot start" THEN hSubmits ELSE hSubmits + 1
            /\ hExit' = IF hEnv.submit.kind = "ok" THEN 0 ELSE 1
       ELSE hSubmits' = hSubmits /\ hExit' = 0
    /\ hPc' = "done"
    /\ UNCHANGED <<hEnv, hNeeds, hWarnings>>
    /\ UNCHANGED SubmitOthers

NextSubmit == SubmitSetup \/ SubmitList \/ SubmitCheck \/ SubmitSend

SpecSubmit == InitSubmit /\ [][NextSubmit]_vars

\* C25: a run whose setup succeeded reaches the submit step unless the
\* status check succeeded with 'Status: OK' in its output; a list or status
\* command that exits non-zero gives a warning and does not end the script.
C25_SubmitUnlessStatusOk ==
    (hPc = "done" /\ hEnv.setup = "ok" /\ hEnv.submit.kind # "cannot start") =>
        /\ hSubmits = 1 <=> ~(hEnv.check.kind = "ok" /\ Contains(hEnv.check.output, "Status: OK"))
        /\ (hEnv.list.kind = "nonzero" \/ hEnv.check.kind = "nonzero") => hWarnings # << >>

\* ------------------------------------------- enhanced_sitemap_monitor.py
\* get_sitemap_status: 'submitted' with the error count of the API's answer,
\* 'not_submitted' on a 404, 'error' on any other HttpError
MonitorStatuses ==
    {[status |-> "submitted", errors |-> 0], [status |-> "submitted", errors |-> 2],
     [status |-> "not_submitted", errors |-> 0], [status |-> "error", errors |-> 0]}

NoAction == "<no action>"   \* the entry has no 'action' key

InitMonitor ==
    /\ nPc = "start"
    /\ nEnv \in [auth : BOOLEAN, valid : BOOLEAN, remote : MonitorStatuses,
                 force_resubmit : BOOLEAN, submit_ok : BOOLEAN]
    /\ nEntry = << >>
    /\ nSubmits = 0
    /\ nIssues = << >>
    /\ MonitorAlone

\* monitor_sitemaps: if not self.authenticate(): return self.results
MonitorAuthenticate ==
    /\ nPc = "start"
    /\ IF nEnv.auth
       THEN nPc' = "validate" /\ nIssues' = nIssues
       ELSE nPc' = "done" /\ nIssues' = Append(nIssues, "Authentication failed")
    /\ UNCHANGED <<nEnv, nEntry, nSubmits>>
    /\ UNCHANGED MonitorOthers

\* the loop body up to the validation: an invalid sitemap is recorded as
\* validation_failed and nothing else is done with it
MonitorValidate ==
    /\ nPc = "validate"
    /\ IF nEnv.valid
       THEN /\ nEntry' = [is_valid |-> TRUE, status |-> "", action |-> NoAction]
            /\ nIssues' = nIssues
            /\ nPc' = "status"
       ELSE /\ nEntry' = [is_valid |-> FALSE, status |-> "validation_failed", action |-> NoAction]
            /\ nIssues' = Append(nIssues, "Validation failed")
            /\ nPc' = "done"
    /\ UNCHANGED <<nEnv, nSubmits>>
    /\ UNCHANGED MonitorOthers

\* the loop body for a valid sitemap: get_sitemap_status, then the chain of
\* if / elif / else with submit_sitemap
MonitorAct ==
    /\ nPc = "status"
    /\ LET status == nEnv.remote
       IN  IF status.status = "not_submitted" \/ nEnv.force_resubmit
           THEN /\ nSubmits' = nSubmits + 1
                /\ nEntry' = [nEntry EXCEPT !.status = status.status,
                                            !.action = IF nEnv.submit_ok THEN "submitted" ELSE @]
                /\ nIssues' = IF nEnv.submit_ok THEN nIssues ELSE Append(nIssues, "Submit failed")
           ELSE IF status.status = "submitted" /\ status.errors > 0
           THEN /\ nSubmits' = nSubmits + 1
                /\ nEntry' = [nEntry EXCEPT !.status = status.status, !.action = "re-submitted"]
                /\ nIssues' = IF nEnv.submit_ok THEN nIssues ELSE Append(nIssues, "Submit failed")
           ELSE /\ nSubmits' = nSubmits
                /\ nEntry' = [nEntry EXCEPT !.status = status.status, !.action = "healthy"]
                /\ nIssues' = nIssues
    /\ nPc' = "done"
    /\ UNCHANGED nEnv
    /\ UNCHANGED MonitorOthers

NextMonitor == MonitorAuthenticate \/ MonitorValidate \/ MonitorAct

SpecMonitor == InitMonitor /\ [][NextMonitor]_vars

\* C26: a submit is attempted iff the sitemap is valid and it is not
\* submitted, or force_resubmit is set, or it is submitted with errors; the
\* entry is 'healthy' only if it is valid and the remote status came back as
\* submitted with no errors; an invalid sitemap is never submitted.
C26_MonitorActionTable ==
    (nPc = "done" /\ nEnv.auth) =>
        /\ nSubmits = 1 <=>
              /\ nEnv.valid
              /\ \/ nEnv.remote.status = "not_submitted"
                 \/ nEnv.force_resubmit
                 \/ nEnv.remote.status = "submitted" /\ nEnv.remote.errors > 0
        /\ nEntry.action = "healthy" =>
              /\ nEnv.valid
              /\ nEnv.remote.status = "submitted" /\ nEnv.remote.errors = 0
        /\ ~nEnv.valid => nSubmits = 0

\* ------------------------------------------------ generate_sitemaps.py: main
\* generate_ai_llm_blog_sitemaps: the paths of the sub-sitemaps, in order
MultiSubmapPaths ==
    [i \in 1..8 |->
        CONTENT_DIR \o "/sitemap-"
        \o <<"main", "posts", "categories", "tags", "tutorials", "resources", "community",
             "help">>[i]
        \o ".xml"]

\* generate_frequency_index_sitemap: the locs of its <sitemap> elements
MultiFrequencyIndexLocs ==
    {BASE_URL \o "/sitemap-frequency-daily.xml", BASE_URL \o "/sitemap-frequency-weekly.xml",
     BASE_URL \o "/sitemap-frequency-monthly.xml"}

\* generate_main_index_sitemap: the locs of its <sitemap> elements
MultiMainIndexLocs ==
    {BASE_URL \o "/sitemap-main.xml", BASE_URL \o "/sitemap-ai-llm-blog.xml",
     BASE_URL \o "/sitemap-frequency-index.xml", BASE_URL \o "/sitemap-media-images.xml",
     BASE_URL \o "/sitemap-master.xml"}
    \cup {BASE_URL \o "/" \o CONTENT_DIR \o "/sitemap-" \o submap \o ".xml" :
            submap \in {"main", "posts", "categories", "tags", "tutorials", "resources",
                        "community", "help"}}

\* a main that writes the main index before the sub-sitemaps of the blog
MultiWritesIndexEarly ==
    <<[path |-> "sitemap-main.xml", locs |-> {}],
      [path |-> "sitemap-ai-llm-blog.xml", locs |-> {}],
      [path |-> "sitemap-frequency-daily.xml", locs |-> {}],
      [path |-> "sitemap-frequency-weekly.xml", locs |-> {}],
      [path |-> "sitemap-frequency-monthly.xml", locs |-> {}],
      [path |-> "sitemap-frequency-index.xml", locs |-> MultiFrequencyIndexLocs],
      [path |-> "sitemap-master.xml", locs |-> {}],
      [path |-> "sitemap-media-images.xml", locs |-> {}],
      [path |-> "sitemap.xml", locs |-> MultiMainIndexLocs]>>
    \o [i \in 1..8 |-> [path |-> MultiSubmapPaths[i], locs |-> {}]]

\* main: the calls of write_sitemap of a run, in order, each with the locs
\* of the <sitemap> elements of what it writes
MultiWrites ==
    <<[path |-> "sitemap-main.xml", locs |-> {}],
      [path |-> "sitemap-ai-llm-blog.xml", locs |-> {}],
      [path |-> "sitemap-frequency-daily.xml", locs |-> {}],
      [path |-> "sitemap-frequency-weekly.xml", locs |-> {}],
      [path |-> "sitemap-frequency-monthly.xml", locs |-> {}],
      [path |-> "sitemap-frequency-index.xml", locs |-> MultiFrequencyIndexLocs],
      [path |-> "sitemap-master.xml", locs |-> {}],
      [path |-> "sitemap-media-images.xml", locs |-> {}]>>
    \o [i \in 1..8 |-> [path |-> MultiSubmapPaths[i], locs |-> {}]]
    \o <<[path |-> "sitemap.xml", locs |-> MultiMainIndexLocs]>>

MultiPaths == {MultiWrites[i].path : i \in 1..Len(MultiWrites)}

\* the files a previous run may have left
MultiLeftovers == {"sitemap.xml", "sitemap-main.xml", "sitemap-frequency-index.xml"}

InitMulti ==
    /\ wPc = "run"
    /\ \E old \in SUBSET MultiLeftovers :
        wDisk = [p \in MultiPaths |-> IF p \in old THEN "old" ELSE "none"]
    /\ wWritten = << >>
    /\ wExit = Running
    /\ MultiAlone

\* write_sitemap, the next call of the run: an exception of open or write
\* is not caught and ends main
MultiWriteNext ==
    /\ wPc = "run" /\ Len(wWritten) < Len(MultiWrites)
    /\ LET next == MultiWrites[Len(wWritten) + 1]
       IN  \E io \in {"ok", "open fails", "write fails"} :
            CASE io = "ok" ->
                    /\ wDisk' = [wDisk EXCEPT ![next.path] = "new"]
                    /\ wWritten' = Append(wWritten, next)
                    /\ UNCHANGED <<wPc, wExit>>
              [] io = "open fails" ->
                    /\ wPc' = "done" /\ wExit' = 1
                    /\ UNCHANGED <<wDisk, wWritten>>
              [] io = "write fails" ->
                    /\ wDisk' = [wDisk EXCEPT ![next.path] = "partial"]
                    /\ wPc' = "done" /\ wExit' = 1
                    /\ wWritten' = wWritten
    /\ UNCHANGED MultiOthers

\* the end of main
MultiFinish ==
    /\ wPc = "run" /\ Len(wWritten) = Len(MultiWrites)
    /\ wPc' = "done" /\ wExit' = 0
    /\ UNCHANGED <<wDisk, wWritten>>
    /\ UNCHANGED MultiOthers

NextMulti == MultiWriteNext \/ MultiFinish

SpecMulti == InitMulti /\ [][NextMulti]_vars

\* the locs of the files written so far in the run
MultiWrittenLocs == {BASE_URL \o "/" \o wWritten[i].path : i \in 1..Len(wWritten)}

\* C28: sitemap.xml is the last file a run writes, and every sitemap that it
\* or sitemap-frequency-index.xml references was written in the run before.
C28_IndexWrittenLast ==
    \A i \in 1..Len(wWritten) :
        /\ wWritten[i].path = "sitemap.xml" => i = Len(MultiWrites) /\ i = Len(wWritten)
        /\ wWritten[i].locs \subseteq {BASE_URL \o "/" \o wWritten[j].path : j \in 1..(i - 1)}

\* a run wrote sitemap.xml, over the one a previous run had left
C28_Witness ==
    /\ wPc = "done" /\ wExit = 0
    /\ wWritten # << >> /\ wWritten[Len(wWritten)].path = "sitemap.xml"
    /\ Cardinality(wWritten[Len(wWritten)].locs) = 13
    /\ wDisk["sitemap.xml"] = "new"

\* ---------------------------- submit_sitemap_bing.py: submit_urls_to_bing_batch
batch_size == 10

\* the longest list of URLs submitted
MaxSubmitted == 24

\* urls[i:i + batch_size + 1]: a slice that takes one URL of the next batch
BingBatchUrlsInclusive(urls, i) ==
    SubSeq(urls, i + 1, IF i + batch_size + 1 < Len(urls) THEN i + batch_size + 1 ELSE Len(urls))

\* urls[i:i + batch_size]
BingBatchUrls(urls, i) ==
    SubSeq(urls, i + 1, IF i + batch_size < Len(urls) THEN i + batch_size ELSE Len(urls))

\* requests.post: a response with a status code, a timeout, another exception
BingOutcomes == {"200", "400", "500", "timeout", "exception"}

\* lists of URLs, all different or with repetitions
BingUrlLists ==
    {[i \in 1..n |-> i % m] : n \in 0..MaxSubmitted, m \in {4, MaxSubmitted + 2}}

InitBing ==
    /\ bPc = "loop"
    /\ bUrls \in BingUrlLists
    /\ bI = 0
    /\ bRequests = << >>
    /\ bTotalSuccess = 0
    /\ bFailedUrls = << >>
    /\ bResult = << >>
    /\ BingAlone

\* one pass of the loop over range(0, len(urls), batch_size)
BingPostBatch ==
    /\ bPc = "loop" /\ bI < Len(bUrls)
    /\ LET batch_urls == BingBatchUrls(bUrls, bI)
       IN  \E outcome \in BingOutcomes :
            /\ bRequests' = Append(bRequests, [urlList |-> batch_urls, outcome |-> outcome])
            /\ IF outcome = "200"
               THEN /\ bTotalSuccess' = bTotalSuccess + Len(batch_urls)
                    /\ bFailedUrls' = bFailedUrls
               ELSE /\ bFailedUrls' = bFailedUrls \o batch_urls
                    /\ bTotalSuccess' = bTotalSuccess
    /\ bI' = bI + batch_size
    /\ UNCHANGED <<bPc, bUrls, bResult>>
    /\ UNCHANGED BingOthers

\* return total_success, failed_urls
BingReturn ==
    /\ bPc = "loop" /\ bI >= Len(bUrls)
    /\ bPc' = "done"
    /\ bResult' = <<bTotalSuccess, bFailedUrls>>
    /\ UNCHANGED <<bUrls, bI, bRequests, bTotalSuccess, bFailedUrls>>
    /\ UNCHANGED BingOthers

NextBing == BingPostBatch \/ BingReturn

SpecBing == InitBing /\ [][NextBing]_vars

RECURSIVE BingUrlLists_(_, _)
\* the urlLists of the first n requests, one after the other; with failed
\* set, those of the requests that did not get a 200 only
BingUrlLists_(n, failed) ==
    IF n = 0 THEN << >>
    ELSE BingUrlLists_(n - 1, failed)
         \o (IF failed /\ bRequests[n].outcome = "200" THEN << >> ELSE bRequests[n].urlList)

\* C29: on return the requests hold the URLs of the list once each, in order,
\* at most batch_size in a request; total_success + len(failed_urls) is
\* len(urls); failed_urls is the URLs of the requests without a 200; a request
\* is sent for every batch whatever the earlier ones got.
C29_EveryUrlInOneBatch ==
    bPc = "done" =>
        /\ BingUrlLists_(Len(bRequests), FALSE) = bUrls
        /\ \A r \in 1..Len(bRequests) :
            Len(bRequests[r].urlList) \in 1..batch_size
        /\ Len(bRequests) = (Len(bUrls) + batch_size - 1) \div batch_size
        /\ bResult[1] + Len(bResult[2]) = Len(bUrls)
        /\ bResult[2] = BingUrlLists_(Len(bRequests), TRUE)

\* three batches, the first timed out, the second refused, the third accepted
C29_Witness ==
    /\ bPc = "done" /\ Len(bRequests) = 3
    /\ bRequests[1].outcome = "timeout" /\ bRequests[2].outcome = "400"
    /\ bRequests[3].outcome = "200"
    /\ bResult[1] = Len(bUrls) - 2 * batch_size /\ Len(bResult[2]) = 2 * batch_size

\* ------------------------------- update_sitemap_if_needed_today.py: exit code
\* C30: a run that exits 0 leaves a sitemap file at the output path, and a
\* run whose generator subprocess failed, or that could not write the minimal
\* sitemap, exits non-zero.
C30_ExitZeroMeansSitemapThere ==
    tPc = "exit" =>
        /\ tExit = 0 => tFiles[tArgs.output].state \in {"old", "minimal"}
        /\ tGenRuns > 0 => tExit # 0
        /\ (tRegen = "no" /\ tFiles[tArgs.output].state = "none") => tExit # 0

=============================================================================
